---- MODULE Spec2Model ----
(***************************************************************************)
(* Model of the availability scraper of clinic-scraper-mvp:                *)
(*   src/lib/aspit-scraper.ts   scrapeAspit, parseAvailabilityFromResponses,*)
(*                              extractSlotsFromObject                      *)
(* JSON values are tagged records, strings are TLA+ strings, and every     *)
(* operation that can raise in JavaScript returns an ok flag.              *)
(***************************************************************************)
EXTENDS Integers, Sequences, FiniteSets, TLC

\* Bound: the longest capture buffer handed to the extractor.
MaxResponses == 2
\* Bound: the most responses the page receives during one scrape.
MaxCaptured == 1

(***************************************************************************)
(* JSON values as the code sees them (`any`).                              *)
(***************************************************************************)
JStr(s) == [k |-> "str", s |-> s, n |-> 0, e |-> <<>>]
JNum(n) == [k |-> "num", s |-> "", n |-> n, e |-> <<>>]
JBool(b) == [k |-> "bool", s |-> "", n |-> (IF b THEN 1 ELSE 0), e |-> <<>>]
JNull == [k |-> "null", s |-> "", n |-> 0, e |-> <<>>]
JUndef == [k |-> "undef", s |-> "", n |-> 0, e |-> <<>>]
JArr(items) == [k |-> "arr", s |-> "", n |-> 0, e |-> items]
JObj(entries) == [k |-> "obj", s |-> "", n |-> 0, e |-> entries]

\* JavaScript truthiness, as used by every `a && b` and `a || b` of the code.
Truthy(v) ==
  CASE v.k = "str" -> v.s # ""
    [] v.k = "num" -> v.n # 0
    [] v.k = "bool" -> v.n = 1
    [] v.k \in {"null", "undef"} -> FALSE
    [] OTHER -> TRUE

\* null and undefined: a property read on them raises a TypeError.
Nullish(v) == v.k \in {"null", "undef"}

\* Array.isArray
IsArray(v) == v.k = "arr"

\* typeof v === 'object' && v !== null
IsObjectLike(v) == v.k \in {"obj", "arr"}

\* v[key] for a string key on a non-nullish value: own property or undefined.
RECURSIVE GetFrom(_, _, _)
GetFrom(entries, key, i) ==
  IF i > Len(entries) THEN JUndef
  ELSE IF entries[i][1] = key THEN entries[i][2]
  ELSE GetFrom(entries, key, i + 1)

Get(v, key) == IF v.k = "obj" THEN GetFrom(v.e, key, 1) ELSE JUndef

\* a || b
OrElse(a, b) == IF Truthy(a) THEN a ELSE b

\* Number to decimal string.
Digit(d) == <<"0", "1", "2", "3", "4", "5", "6", "7", "8", "9">>[d + 1]

RECURSIVE NumStr(_)
NumStr(n) ==
  IF n < 0 THEN "-" \o NumStr(0 - n)
  ELSE IF n < 10 THEN Digit(n)
  ELSE NumStr(n \div 10) \o Digit(n % 10)

\* String(v), `${v}` and v.toString() for the values of the model.
RECURSIVE ToStr(_)
RECURSIVE JoinFrom(_, _)
JoinFrom(items, i) ==
  IF i > Len(items) THEN ""
  ELSE (IF Nullish(items[i]) THEN "" ELSE ToStr(items[i]))
       \o (IF i < Len(items) THEN "," ELSE "")
       \o JoinFrom(items, i + 1)

ToStr(v) ==
  CASE v.k = "str" -> v.s
    [] v.k = "num" -> NumStr(v.n)
    [] v.k = "bool" -> (IF v.n = 1 THEN "true" ELSE "false")
    [] v.k = "null" -> "null"
    [] v.k = "undef" -> "undefined"
    [] v.k = "arr" -> JoinFrom(v.e, 1)
    [] OTHER -> "[object Object]"

\* a === b on the scalars the model stores in slots.
StrictEq(a, b) == a.k = b.k /\ a.s = b.s /\ a.n = b.n

(***************************************************************************)
(* Dates.  new Date(s).toISOString().split('T')[0]: the timestamp is       *)
(* parsed to an instant, and the date printed is the UTC date of that      *)
(* instant.                                                                *)
(***************************************************************************)
DayNames == <<"2025-11-01", "2025-11-02", "2025-11-03", "2025-11-04", "2025-11-05">>

Invalid == [valid |-> FALSE, day |-> 0, hour |-> 0, hasOff |-> TRUE, off |-> 0]
Stamp(d, h, hasOff, off) == [valid |-> TRUE, day |-> d, hour |-> h, hasOff |-> hasOff, off |-> off]

\* Date.parse on the timestamp strings of the model: day index, hour of day,
\* and the UTC offset in hours when the string carries one.
ParseTimestamp(s) ==
  CASE s = "2025-11-03T09:00:00Z" -> Stamp(3, 9, TRUE, 0)
    [] s = "2025-11-03T00:30:00+02:00" -> Stamp(3, 0, TRUE, 2)
    [] s = "2025-11-03T23:30:00-02:00" -> Stamp(3, 23, TRUE, 0 - 2)
    [] s = "2025-11-03T23:30:00" -> Stamp(3, 23, FALSE, 0)
    [] s = "2025-11-03T00:30:00" -> Stamp(3, 0, FALSE, 0)
    [] s = "2025-11-02" -> Stamp(2, 0, TRUE, 0)
    [] s = "2025-11-03" -> Stamp(3, 0, TRUE, 0)
    [] s = "2025-11-04" -> Stamp(4, 0, TRUE, 0)
    [] OTHER -> Invalid

\* new Date(v): a string is parsed, a number is epoch milliseconds.
NewDate(v) ==
  CASE v.k = "str" -> ParseTimestamp(v.s)
    [] v.k \in {"num", "bool", "null"} -> Stamp(0, 0, TRUE, 0)
    [] OTHER -> Invalid

\* toISOString().split('T')[0] of a valid Date; tz is the UTC offset (hours)
\* of the process, which a timestamp without offset is read in.
ISODate(d, tz) ==
  IF d.day = 0 THEN "1970-01-01"
  ELSE LET utcHour == d.hour - (IF d.hasOff THEN d.off ELSE tz)
       IN DayNames[d.day + (IF utcHour < 0 THEN 0 - 1 ELSE IF utcHour >= 24 THEN 1 ELSE 0)]

(***************************************************************************)
(* String.prototype.localeCompare on the strings a slot's date or time can *)
(* hold in the model, listed in collation order.                           *)
(***************************************************************************)
CollationOrder ==
  << "09:00", "09:00 - 10:30", "09:30", "10:30", "11:00", "13:00", "14:00", "15:30",
     "16:00", "17:30", "1970-01-01",
     "2025-10-23", "2025-10-24", "2025-10-25",
     "2025-11-01", "2025-11-02", "2025-11-03", "2025-11-04", "2025-11-05",
     "undefined" >>

Rank(s) == CHOOSE i \in 1..Len(CollationOrder) : CollationOrder[i] = s

LocaleCompare(a, b) ==
  IF Rank(a) < Rank(b) THEN 0 - 1 ELSE IF Rank(a) > Rank(b) THEN 1 ELSE 0

(***************************************************************************)
(* extractSlotsFromObject.  A result is the list of slots pushed, or a     *)
(* raised exception (ok = FALSE).                                          *)
(***************************************************************************)
Ok(slots) == [ok |-> TRUE, slots |-> slots]
Raised == [ok |-> FALSE, slots |-> <<>>]

\* Two statements in sequence: the second runs only if the first returned.
Then(a, b) == IF ~a.ok \/ ~b.ok THEN Raised ELSE Ok(a.slots \o b.slots)

Slot(date, time, doctor) == [date |-> date, time |-> time, doctor |-> doctor]

EmptyMap == [x \in {} |-> JUndef]

\* doctorMap[user] || `User ${user}`
DoctorFor(doctorMap, user) ==
  LET key == ToStr(user)
  IN IF key \in DOMAIN doctorMap /\ Truthy(doctorMap[key])
     THEN doctorMap[key]
     ELSE JStr("User " \o ToStr(user))

\* Variant: the timestamp is converted before Start and TimeSlot are tested.
StartSlotUnguarded(entry, time, owner, ctx) ==
  IF NewDate(Get(entry, "Start")).valid
  THEN IF Truthy(Get(entry, "Start")) /\ Truthy(Get(entry, "TimeSlot"))
       THEN Ok(<<Slot(JStr(ISODate(NewDate(Get(entry, "Start")), ctx.tz)),
                      time,
                      DoctorFor(ctx.doctorMap, owner))>>)
       ELSE Ok(<<>>)
  ELSE Raised

\* The Start + TimeSlot pair of one object, attributed to `owner`; `time` is
\* the slot label as the call site stores it.  toISOString raises a
\* RangeError on an invalid Date.
StartSlot(entry, time, owner, ctx) ==
  IF Truthy(Get(entry, "Start")) /\ Truthy(Get(entry, "TimeSlot"))
  THEN IF NewDate(Get(entry, "Start")).valid
       THEN Ok(<<Slot(JStr(ISODate(NewDate(Get(entry, "Start")), ctx.tz)),
                      time,
                      DoctorFor(ctx.doctorMap, owner))>>)
       ELSE Raised
  ELSE Ok(<<>>)

\* for (const timeSlot of durationSlot.TimeSlots)
RECURSIVE TimeSlotEntries(_, _, _, _)
TimeSlotEntries(items, i, owner, ctx) ==
  IF i > Len(items) THEN Ok(<<>>)
  ELSE IF Nullish(items[i]) THEN Raised
  ELSE Then(StartSlot(items[i], Get(items[i], "TimeSlot"), owner, ctx),
            TimeSlotEntries(items, i + 1, owner, ctx))

\* for (const durationSlot of obj.DurationTimeSlots)
RECURSIVE DurationSlotEntries(_, _, _, _)
DurationSlotEntries(items, i, owner, ctx) ==
  IF i > Len(items) THEN Ok(<<>>)
  ELSE IF Nullish(items[i]) THEN Raised
  ELSE Then(IF Truthy(Get(items[i], "TimeSlots")) /\ IsArray(Get(items[i], "TimeSlots"))
            THEN TimeSlotEntries(Get(items[i], "TimeSlots").e, 1, owner, ctx)
            ELSE Ok(<<>>),
            DurationSlotEntries(items, i + 1, owner, ctx))

\* The three `for (const slot of ...)` loops over explicit slot lists; the
\* field names are PascalCase (AvailableSlots) or camelCase (Slots).
RECURSIVE ListedSlots(_, _, _, _, _, _, _)
ListedSlots(items, i, fDate, fTime, fDoc1, fDoc2, fDoc3) ==
  IF i > Len(items) THEN Ok(<<>>)
  ELSE IF Nullish(items[i]) THEN Raised
  ELSE Then(IF Truthy(Get(items[i], fDate)) /\ Truthy(Get(items[i], fTime))
            THEN Ok(<<Slot(Get(items[i], fDate), Get(items[i], fTime),
                           OrElse(Get(items[i], fDoc1),
                                  OrElse(Get(items[i], fDoc2), Get(items[i], fDoc3))))>>)
            ELSE Ok(<<>>),
            ListedSlots(items, i + 1, fDate, fTime, fDoc1, fDoc2, fDoc3))

ListedIn(list, fDate, fTime, fDoc1, fDoc2, fDoc3) ==
  IF Truthy(list) /\ IsArray(list)
  THEN ListedSlots(list.e, 1, fDate, fTime, fDoc1, fDoc2, fDoc3)
  ELSE Ok(<<>>)

\* obj.doctor || obj.doctorName || obj.practitioner
OwnDoctor(obj) ==
  OrElse(Get(obj, "doctor"), OrElse(Get(obj, "doctorName"), Get(obj, "practitioner")))

RECURSIVE ExtractSlotsFromObject(_, _)
RECURSIVE ExtractEach(_, _, _)
RECURSIVE ExtractNested(_, _, _)

\* for (const item of list) slots.push(...extractSlotsFromObject(item, ...))
ExtractEach(items, i, ctx) ==
  IF i > Len(items) THEN Ok(<<>>)
  ELSE Then(ExtractSlotsFromObject(items[i], ctx), ExtractEach(items, i + 1, ctx))

\* for (const [key, value] of Object.entries(obj)) if (typeof value === 'object' && value !== null)
ExtractNested(entries, i, ctx) ==
  IF i > Len(entries) THEN Ok(<<>>)
  ELSE Then(IF IsObjectLike(entries[i][2])
            THEN ExtractSlotsFromObject(entries[i][2], ctx)
            ELSE Ok(<<>>),
            ExtractNested(entries, i + 1, ctx))

ExtractIn(list, ctx) ==
  IF Truthy(list) /\ IsArray(list) THEN ExtractEach(list.e, 1, ctx) ELSE Ok(<<>>)

ExtractSlotsFromObject(obj, ctx) ==
  IF IsArray(obj) THEN ExtractEach(obj.e, 1, ctx)
  ELSE IF obj.k = "obj" THEN
    Then(IF Truthy(Get(obj, "DurationTimeSlots")) /\ IsArray(Get(obj, "DurationTimeSlots"))
         THEN DurationSlotEntries(Get(obj, "DurationTimeSlots").e, 1, Get(obj, "User"), ctx)
         ELSE Ok(<<>>),
    Then(ListedIn(Get(obj, "AvailableSlots"), "Date", "Time", "Doctor", "Therapist", "Practitioner"),
    Then(IF Truthy(Get(obj, "Data"))
         THEN ListedIn(Get(Get(obj, "Data"), "AvailableSlots"),
                       "Date", "Time", "Doctor", "Therapist", "Practitioner")
         ELSE Ok(<<>>),
    Then(ListedIn(Get(obj, "Slots"), "date", "time", "doctor", "therapist", "practitioner"),
    Then(IF Truthy(Get(obj, "date")) /\ Truthy(Get(obj, "time"))
         THEN Ok(<<Slot(JStr(ToStr(Get(obj, "date"))), JStr(ToStr(Get(obj, "time"))), OwnDoctor(obj))>>)
         ELSE Ok(<<>>),
    Then(StartSlot(obj, JStr(ToStr(Get(obj, "TimeSlot"))), Get(obj, "User"), ctx),
    Then(IF Truthy(Get(obj, "startTime")) /\ Truthy(Get(obj, "endTime"))
         THEN Ok(<<Slot(JStr(ToStr(OrElse(Get(obj, "date"), Get(obj, "startDate")))),
                        JStr(ToStr(Get(obj, "startTime")) \o " - " \o ToStr(Get(obj, "endTime"))),
                        OwnDoctor(obj))>>)
         ELSE Ok(<<>>),
    Then(ExtractIn(Get(obj, "availableSlots"), ctx),
    Then(ExtractIn(Get(obj, "appointments"), ctx),
         ExtractNested(obj.e, 1, ctx))))))))))
  ELSE Ok(<<>>)

(***************************************************************************)
(* parseAvailabilityFromResponses, first pass: the doctor directory.       *)
(***************************************************************************)
\* doctorMap[id.toString()] = name
Register(doctorMap, id, name) ==
  [key \in DOMAIN doctorMap \cup {ToStr(id)} |->
     IF key = ToStr(id) THEN name ELSE doctorMap[key]]

\* for (const therapist of list) if (therapist[fId] && therapist[fName]) ...
\* The result keeps the entries written before a raise.
RECURSIVE RegisterEach(_, _, _, _, _)
RegisterEach(doctorMap, items, i, fId, fName) ==
  IF i > Len(items) THEN [ok |-> TRUE, doctorMap |-> doctorMap]
  ELSE IF Nullish(items[i]) THEN [ok |-> FALSE, doctorMap |-> doctorMap]
  ELSE RegisterEach(IF Truthy(Get(items[i], fId)) /\ Truthy(Get(items[i], fName))
                    THEN Register(doctorMap, Get(items[i], fId), Get(items[i], fName))
                    ELSE doctorMap,
                    items, i + 1, fId, fName)

RegisterIn(doctorMap, list, fId, fName) ==
  IF Truthy(list) /\ IsArray(list)
  THEN RegisterEach(doctorMap, list.e, 1, fId, fName)
  ELSE [ok |-> TRUE, doctorMap |-> doctorMap]

\* The body of the first loop for one response; its catch swallows a raise.
FirstPass(doctorMap, data) ==
  LET therapists == RegisterIn(doctorMap, Get(data, "Therapists"), "Oid", "Name")
  IN IF ~therapists.ok THEN therapists.doctorMap
     ELSE RegisterIn(therapists.doctorMap, Get(data, "Doctors"), "id", "name").doctorMap

(***************************************************************************)
(* Second pass: slots and the dates reported as available.                 *)
(***************************************************************************)
\* Set.prototype.add on the insertion-ordered availableDatesSet.
SetAdd(set, v) ==
  IF \E i \in 1..Len(set) : StrictEq(set[i], v) THEN set ELSE Append(set, v)

SetHas(set, v) == \E i \in 1..Len(set) : StrictEq(set[i], v)

dateFields ==
  <<"AvailableDates", "availableDates", "dates", "Dates", "available_dates", "available-dates">>

\* for (const dateItem of data[field])
RECURSIVE AddDateItems(_, _, _)
AddDateItems(set, items, i) ==
  IF i > Len(items) THEN set
  ELSE AddDateItems(IF items[i].k = "str" THEN SetAdd(set, items[i])
                    ELSE IF Truthy(items[i]) /\ Truthy(Get(items[i], "date"))
                    THEN SetAdd(set, Get(items[i], "date"))
                    ELSE set,
                    items, i + 1)

\* for (const field of dateFields)
RECURSIVE AddDateFields(_, _, _)
AddDateFields(set, data, f) ==
  IF f > Len(dateFields) THEN set
  ELSE AddDateFields(IF Truthy(Get(data, dateFields[f])) /\ IsArray(Get(data, dateFields[f]))
                     THEN AddDateItems(set, Get(data, dateFields[f]).e, 1)
                     ELSE set,
                     data, f + 1)

\* for (const slot of list) { if (slot.Date) add; if (lower && slot.date) add }
\* The result keeps the dates added before a raise.
RECURSIVE AddSlotDates(_, _, _, _)
AddSlotDates(set, items, i, lower) ==
  IF i > Len(items) THEN [ok |-> TRUE, set |-> set]
  ELSE IF Nullish(items[i]) THEN [ok |-> FALSE, set |-> set]
  ELSE LET withDate == IF Truthy(Get(items[i], "Date"))
                       THEN SetAdd(set, Get(items[i], "Date")) ELSE set
           withBoth == IF lower /\ Truthy(Get(items[i], "date"))
                       THEN SetAdd(withDate, Get(items[i], "date")) ELSE withDate
       IN AddSlotDates(withBoth, items, i + 1, lower)

\* if (data.Data && data.Data.AvailableSlots) for (const slot of ...): the
\* list is not checked to be an array; a string iterates its characters,
\* any other non-array raises "not iterable".
AddNestedSlotDates(set, data) ==
  LET list == Get(Get(data, "Data"), "AvailableSlots")
  IN IF ~(Truthy(Get(data, "Data")) /\ Truthy(list)) THEN [ok |-> TRUE, set |-> set]
     ELSE IF IsArray(list) THEN AddSlotDates(set, list.e, 1, FALSE)
     ELSE IF list.k = "str" THEN [ok |-> TRUE, set |-> set]
     ELSE [ok |-> FALSE, set |-> set]

\* The body of the second loop for one response; its catch swallows a raise
\* and keeps what was pushed and added before it.
SecondPass(acc, data, ctx) ==
  IF ~(Truthy(data) /\ IsObjectLike(data)) THEN acc
  ELSE LET possibleSlots == ExtractSlotsFromObject(data, ctx)
       IN IF ~possibleSlots.ok THEN acc
          ELSE LET declared == AddDateFields(acc.availableDatesSet, data, 1)
                   listed == IF Truthy(Get(data, "AvailableSlots")) /\ IsArray(Get(data, "AvailableSlots"))
                             THEN AddSlotDates(declared, Get(data, "AvailableSlots").e, 1, TRUE)
                             ELSE [ok |-> TRUE, set |-> declared]
                   nested == IF listed.ok THEN AddNestedSlotDates(listed.set, data) ELSE listed
               IN [slots |-> acc.slots \o possibleSlots.slots, availableDatesSet |-> nested.set]

(***************************************************************************)
(* Normalisation: dedup, sort, count.                                      *)
(***************************************************************************)
\* self.findIndex(s => s.date === slot.date && s.time === slot.time)
FindIndex(self, slot) ==
  CHOOSE i \in 1..Len(self) :
    /\ StrictEq(self[i].date, slot.date) /\ StrictEq(self[i].time, slot.time)
    /\ \A j \in 1..(i - 1) :
         ~(StrictEq(self[j].date, slot.date) /\ StrictEq(self[j].time, slot.time))

\* slots.filter((slot, index, self) => index === self.findIndex(...))
RECURSIVE FilterFirst(_, _)
FilterFirst(self, index) ==
  IF index > Len(self) THEN <<>>
  ELSE (IF index = FindIndex(self, self[index]) THEN <<self[index]>> ELSE <<>>)
       \o FilterFirst(self, index + 1)

\* Variant: the last occurrence of a (date, time) pair survives.
RECURSIVE FilterLast(_, _)
FilterLast(self, index) ==
  IF index > Len(self) THEN <<>>
  ELSE (IF \A j \in (index + 1)..Len(self) :
             ~(StrictEq(self[j].date, self[index].date) /\ StrictEq(self[j].time, self[index].time))
        THEN <<self[index]>> ELSE <<>>)
       \o FilterLast(self, index + 1)

UniqueSlotsKeepLast(slots) == FilterLast(slots, 1)

UniqueSlots(slots) == FilterFirst(slots, 1)

\* Variant: the comparator looks at the date only.
CompareSlotsDateOnly(a, b) == LocaleCompare(ToStr(a.date), ToStr(b.date))

\* The comparator of the slot sort: date, then time, by localeCompare.
CompareSlots(a, b) ==
  LET dateCompare == LocaleCompare(ToStr(a.date), ToStr(b.date))
  IN IF dateCompare # 0 THEN dateCompare ELSE LocaleCompare(ToStr(a.time), ToStr(b.time))

\* The comparator of the date sort.
CompareDates(a, b) == LocaleCompare(ToStr(a.date), ToStr(b.date))

\* Array.prototype.sort is stable: an element goes after the elements that
\* compare lower or equal.  `by` selects the comparator of the call site.
CompareBy(by, a, b) == IF by = "slots" THEN CompareSlots(a, b) ELSE CompareDates(a, b)

RECURSIVE InsertSorted(_, _, _, _)
InsertSorted(sorted, x, i, by) ==
  IF i > Len(sorted) THEN Append(sorted, x)
  ELSE IF CompareBy(by, x, sorted[i]) < 0
       THEN SubSeq(sorted, 1, i - 1) \o <<x>> \o SubSeq(sorted, i, Len(sorted))
       ELSE InsertSorted(sorted, x, i + 1, by)

RECURSIVE SortFrom(_, _, _, _)
SortFrom(sorted, items, i, by) ==
  IF i > Len(items) THEN sorted
  ELSE SortFrom(InsertSorted(sorted, items[i], 1, by), items, i + 1, by)

SortSlots(uniqueSlots) == SortFrom(<<>>, uniqueSlots, 1, "slots")

\* A comparator call raises when its receiver is not a string (it has no
\* localeCompare); with two or more elements every element is a receiver in
\* some engine's call order.
SortRaises(items, by) ==
  /\ Len(items) >= 2
  /\ \E i \in 1..Len(items) :
       items[i].date.k # "str" \/ (by = "slots" /\ items[i].time.k # "str")

AvailableDate(date, count) == [date |-> date, count |-> count]

\* Variant: the reduce sets the counter without incrementing it.
SlotsByDateNoIncrement(sortedSlots, dateStr) ==
  IF \E i \in 1..Len(sortedSlots) : ToStr(sortedSlots[i].date) = dateStr THEN 1 ELSE 0

\* slotsByDate[dateStr]: the reduce over the sorted slots.
SlotsByDate(sortedSlots, dateStr) ==
  Cardinality({i \in 1..Len(sortedSlots) : ToStr(sortedSlots[i].date) = dateStr})

\* Variant: a declared date without slots counts 1.
DeclaredEntryDefaultOne(dateStr, sortedSlots) ==
  AvailableDate(dateStr,
                IF SlotsByDate(sortedSlots, ToStr(dateStr)) = 0 THEN 1
                ELSE SlotsByDate(sortedSlots, ToStr(dateStr)))

\* for (const dateStr of availableDatesSet) { count = slotsByDate[dateStr] || 0 }
DeclaredEntry(dateStr, sortedSlots) ==
  AvailableDate(dateStr, SlotsByDate(sortedSlots, ToStr(dateStr)))

RECURSIVE DeclaredEntries(_, _, _)
DeclaredEntries(set, i, sortedSlots) ==
  IF i > Len(set) THEN <<>>
  ELSE <<DeclaredEntry(set[i], sortedSlots)>> \o DeclaredEntries(set, i + 1, sortedSlots)

\* for (const [date, count] of Object.entries(slotsByDate))
\*   if (!availableDatesSet.has(date)) availableDates.push({ date, count })
RECURSIVE SlotEntries(_, _, _)
SlotEntries(set, sortedSlots, i) ==
  IF i > Len(sortedSlots) THEN <<>>
  ELSE LET date == ToStr(sortedSlots[i].date)
           isFirst == \A j \in 1..(i - 1) : ToStr(sortedSlots[j].date) # date
       IN (IF isFirst /\ ~SetHas(set, JStr(date))
           THEN <<AvailableDate(JStr(date), SlotsByDate(sortedSlots, date))>>
           ELSE <<>>)
          \o SlotEntries(set, sortedSlots, i + 1)

SortDates(availableDates) == SortFrom(<<>>, availableDates, 1, "dates")

\* Everything after the second loop, up to the return.
Normalise(slots, availableDatesSet) ==
  LET uniqueSlots == UniqueSlots(slots)
      sortedSlots == SortSlots(uniqueSlots)
      availableDates == DeclaredEntries(availableDatesSet, 1, sortedSlots)
                        \o SlotEntries(availableDatesSet, sortedSlots, 1)
  IN IF SortRaises(uniqueSlots, "slots") \/ SortRaises(availableDates, "dates")
     THEN [ok |-> FALSE, slots |-> <<>>, availableDates |-> <<>>]
     ELSE [ok |-> TRUE, slots |-> sortedSlots, availableDates |-> SortDates(availableDates)]

\* The two loops over the whole buffer, for callers that run the function
\* in one step.  `bodies` is the list of response bodies.
RECURSIVE FirstLoop(_, _, _)
FirstLoop(doctorMap, bodies, i) ==
  IF i > Len(bodies) THEN doctorMap
  ELSE FirstLoop(FirstPass(doctorMap, bodies[i]), bodies, i + 1)

RECURSIVE SecondLoop(_, _, _, _)
SecondLoop(acc, bodies, i, ctx) ==
  IF i > Len(bodies) THEN acc
  ELSE SecondLoop(SecondPass(acc, bodies[i], ctx), bodies, i + 1, ctx)

ParseAvailabilityFromResponses(bodies, tz) ==
  LET ctx == [doctorMap |-> FirstLoop(EmptyMap, bodies, 1), tz |-> tz]
      acc == SecondLoop([slots |-> <<>>, availableDatesSet |-> <<>>], bodies, 1, ctx)
  IN Normalise(acc.slots, acc.availableDatesSet)

(***************************************************************************)
(* The response bodies the capture buffer is filled from: the shapes the   *)
(* extractor looks for, well-formed and malformed, and bodies it ignores.  *)
(***************************************************************************)
TimeEntry(start, label) == JObj(<< <<"Start", JStr(start)>>, <<"TimeSlot", JStr(label)>> >>)
Listing(field, fId, id, fName, name) ==
  JObj(<< <<field, JArr(<< JObj(<< <<fId, id>>, <<fName, JStr(name)>> >>) >>)>> >>)
Listed(fDate, date, fTime, time, fDoc, doctor) ==
  JObj(<< <<fDate, JStr(date)>>, <<fTime, JStr(time)>>, <<fDoc, JStr(doctor)>> >>)

Bodies ==
  << \* 1: a practitioner listing and a duration-slot list whose entry carries User
     JObj(<< <<"Therapists", JArr(<< JObj(<< <<"Oid", JNum(7)>>, <<"Name", JStr("Dr. Lin")>> >>) >>)>>,
             <<"DurationTimeSlots",
               JArr(<< JObj(<< <<"User", JNum(7)>>,
                               <<"TimeSlots", JArr(<< TimeEntry("2025-11-03T09:00:00Z", "09:00") >>)>> >>) >>)>> >>),
     \* 2: a duration-slot list on an object that carries User itself
     JObj(<< <<"User", JNum(7)>>,
             <<"DurationTimeSlots",
               JArr(<< JObj(<< <<"TimeSlots",
                                 JArr(<< TimeEntry("2025-11-03T09:00:00Z", "09:00"),
                                         TimeEntry("2025-11-03T00:30:00+02:00", "10:30") >>)>> >>) >>)>> >>),
     \* 3, 4: practitioner listings in the two spellings
     Listing("Therapists", "Oid", JNum(7), "Name", "Dr. Lin"),
     Listing("Doctors", "id", JStr("8"), "name", "Dr. Berg"),
     \* 5: explicit slots, out of order
     JObj(<< <<"AvailableSlots",
               JArr(<< Listed("Date", "2025-11-04", "Time", "10:30", "Doctor", "Dr. Berg"),
                       Listed("Date", "2025-11-03", "Time", "09:00", "Therapist", "Dr. Berg") >>)>> >>),
     \* 6: dates declared available, as strings, out of order
     JObj(<< <<"AvailableDates", JArr(<< JStr("2025-11-04"), JStr("2025-11-02") >>)>> >>),
     \* 7: a date declared available as an object with a count of its own
     JObj(<< <<"dates", JArr(<< JObj(<< <<"date", JStr("2025-11-05")>>, <<"count", JNum(3)>> >>) >>)>> >>),
     \* 8: camelCase slots
     JObj(<< <<"Slots", JArr(<< Listed("date", "2025-11-03", "time", "10:30", "doctor", "Dr. Lin") >>)>> >>),
     \* 9: a startTime/endTime pair on an object without a date
     JObj(<< <<"appointments",
               JArr(<< JObj(<< <<"startTime", JStr("09:00")>>, <<"endTime", JStr("10:30")>> >>) >>)>> >>),
     \* 10: a declared date next to a Start timestamp that does not parse
     JObj(<< <<"AvailableDates", JArr(<< JStr("2025-11-04") >>)>>,
             <<"Start", JStr("garbage")>>, <<"TimeSlot", JStr("09:00")>> >>),
     \* 11: a null element in a slot list
     JObj(<< <<"AvailableSlots", JArr(<< JNull >>)>> >>),
     \* 12, 13: a text body and an empty object
     JStr("plain text"),
     JObj(<< >>),
     \* 14: slots under Data
     JObj(<< <<"Data", JObj(<< <<"AvailableSlots",
                                 JArr(<< Listed("Date", "2025-11-02", "Time", "09:00", "Practitioner", "Dr. Lin") >>)>> >>)>> >>),
     \* 15: an array body holding a date + time pair
     JArr(<< Listed("date", "2025-11-04", "time", "09:00", "doctorName", "Dr. Berg") >>),
     \* 16: a Start + TimeSlot pair without UTC offset, owner not listed anywhere
     JObj(<< <<"User", JNum(9)>>, <<"Start", JStr("2025-11-03T23:30:00")>>, <<"TimeSlot", JStr("10:30")>> >>),
     \* 17: User on the holder of the list and on the duration-slot entry
     JObj(<< <<"User", JStr("8")>>,
             <<"DurationTimeSlots",
               JArr(<< JObj(<< <<"User", JNum(7)>>,
                               <<"TimeSlots", JArr(<< TimeEntry("2025-11-03T09:00:00Z", "10:30") >>)>> >>) >>)>> >>),
     \* 18, 19, 20: the JSON primitives null, number and boolean
     JNull,
     JNum(42),
     JBool(TRUE),
     \* 21: nested JSON with none of the shapes
     JObj(<< <<"meta", JObj(<< <<"items", JArr(<< JObj(<< <<"label", JStr("x")>> >>),
                                                   JNum(5), JNull, JBool(FALSE),
                                                   JArr(<< JObj(<< >>) >>) >>)>>,
                                <<"note", JStr("y")>> >>)>>,
             <<"total", JNum(0)>> >>)
  >>

\* The bodies that are an empty object, a primitive or unrelated JSON.
IgnoredIds == {12, 13, 18, 19, 20, 21}

BodyIds == 1..Len(Bodies)

\* UTC offsets (hours) of the process running the scraper.
TzOffsets == {0 - 2, 0, 2}

\* response.data of every record of a buffer
RECURSIVE DataOf(_)
DataOf(responses) ==
  IF responses = <<>> THEN <<>> ELSE <<Bodies[Head(responses)]>> \o DataOf(Tail(responses))

\* Buffers of at most n records.
RECURSIVE Buffers(_)
Buffers(n) ==
  IF n = 0 THEN {<<>>}
  ELSE Buffers(n - 1) \cup {Append(b, i) : b \in {x \in Buffers(n - 1) : Len(x) = n - 1}, i \in BodyIds}

(***************************************************************************)
(* State.                                                                  *)
(***************************************************************************)
VARIABLES
  apiResponses,       \* the capture buffer: ids of the bodies captured, in order
  tz,                 \* UTC offset of the process
  ppc,                \* position inside parseAvailabilityFromResponses
  index,              \* loop position of the running pass
  doctorMap,          \* local of the running call
  slots,              \* local of the running call: slots in extraction order
  availableDatesSet,  \* local of the running call
  parsed,             \* value returned by the last completed call
  firstParsed,        \* value returned by the first completed call
  calls,              \* completed calls
  pc,                 \* position inside scrapeAspit
  env,                \* process.env: VERCEL set or not, entries of PROXY_LIST
  args,               \* arguments of the call: proxy given, targetMonth given
  proxyIndex,         \* module-level rotation index of getNextProxy
  browser,            \* the local `browser`: 0 is null, else the session launched
  launched,           \* sessions chromium.launch returned
  closes,             \* per session, the completed browser.close() calls
  failure,            \* where the exception that reached the outer catch was raised
  result,             \* the value of the return statement that ran last
  outcome,            \* how the call ended for its caller
  launches,           \* calls of chromium.launch made
  installs,           \* runs of the browser install made
  responses,          \* the responses of the page, each with how far its handler got
  extractorInput,     \* the buffer as parseAvailabilityFromResponses was given it
  attempted,          \* the interaction steps entered
  sessions,           \* concurrent invocations: position, proxy argument, proxy selected
  cache,              \* route.ts: the module-level Map, by cache key
  now,                \* Date.now()
  inflight,           \* route.ts: the requests, each idle, awaiting scrapeAspit or answered
  answer,             \* route.ts: the response sent last
  ipc,                \* position inside navigateToMonth or the interaction block
  monthsDiff,         \* navigateToMonth: months from today to the target
  monthLog,           \* navigateToMonth: what each iteration did
  selector,           \* interaction block: position in calendarSelectors
  located,            \* interaction block: length of the list located last
  iter,               \* iterations of the running loop completed
  clicks              \* interaction block: click() calls made, by step

parseVars == <<ppc, index, doctorMap, slots, availableDatesSet, parsed, firstParsed, calls>>
scrapeVars == <<pc, env, args, proxyIndex, browser, launched, closes, failure, result, outcome,
                launches, installs, responses, extractorInput, attempted>>
routeVars == <<cache, now, inflight, answer>>
clickVars == <<ipc, monthsDiff, monthLog, selector, located, iter, clicks>>
otherVars == <<sessions, routeVars, clickVars>>
outsideVars == <<apiResponses, tz, parseVars, scrapeVars, sessions, routeVars>>
vars == <<apiResponses, tz, parseVars, scrapeVars, otherVars>>

NoResult == [ok |-> FALSE, slots |-> <<>>, availableDates |-> <<>>]

\* Bound: calls of the extractor on one buffer.
MaxCalls == 2

\* Bound: invocations of scrapeAspit in one process.
MaxInvocations == 3

\* Bounds: requests to the endpoint, and minutes of clock time.
MaxRequests == 2
MaxMinutes == 6

(***************************************************************************)
(* parseAvailabilityFromResponses(apiResponses), one loop iteration per    *)
(* step.                                                                   *)
(***************************************************************************)
\* Entry: the locals are created empty.
ParseStart ==
  /\ ppc \in {"idle", "done"}
  /\ calls < MaxCalls
  /\ ppc' = "first"
  /\ index' = 1
  /\ doctorMap' = EmptyMap
  /\ slots' = <<>>
  /\ availableDatesSet' = <<>>
  /\ UNCHANGED <<apiResponses, tz, parsed, firstParsed, calls, scrapeVars, otherVars>>

\* One iteration of the first loop.
FirstPassStep ==
  /\ ppc = "first"
  /\ index <= Len(apiResponses)
  /\ doctorMap' = FirstPass(doctorMap, Bodies[apiResponses[index]])
  /\ index' = index + 1
  /\ UNCHANGED <<apiResponses, tz, ppc, slots, availableDatesSet, parsed, firstParsed, calls, scrapeVars, otherVars>>

\* The first loop ends, the second begins.
FirstPassEnd ==
  /\ ppc = "first"
  /\ index > Len(apiResponses)
  /\ ppc' = "second"
  /\ index' = 1
  /\ UNCHANGED <<apiResponses, tz, doctorMap, slots, availableDatesSet, parsed, firstParsed, calls, scrapeVars, otherVars>>

\* Variant: one try block around the whole second loop, which an exception
\* ends.
SecondPassStepOneTry ==
  /\ ppc = "second"
  /\ index <= Len(apiResponses)
  /\ LET acc == SecondPass([slots |-> slots, availableDatesSet |-> availableDatesSet],
                           Bodies[apiResponses[index]],
                           [doctorMap |-> doctorMap, tz |-> tz])
     IN /\ slots' = acc.slots
        /\ availableDatesSet' = acc.availableDatesSet
  /\ index' = IF ExtractSlotsFromObject(Bodies[apiResponses[index]],
                                        [doctorMap |-> doctorMap, tz |-> tz]).ok
               THEN index + 1 ELSE Len(apiResponses) + 1
  /\ UNCHANGED <<apiResponses, tz, ppc, doctorMap, parsed, firstParsed, calls, scrapeVars, otherVars>>

\* Variant: a single pass, in which the directory holds the listings of the
\* responses up to the one being extracted.
SecondPassStepSinglePass ==
  /\ ppc = "second"
  /\ index <= Len(apiResponses)
  /\ LET acc == SecondPass([slots |-> slots, availableDatesSet |-> availableDatesSet],
                           Bodies[apiResponses[index]],
                           [doctorMap |-> FirstLoop(EmptyMap,
                                                    DataOf(SubSeq(apiResponses, 1, index)), 1),
                            tz |-> tz])
     IN /\ slots' = acc.slots
        /\ availableDatesSet' = acc.availableDatesSet
  /\ index' = index + 1
  /\ UNCHANGED <<apiResponses, tz, ppc, doctorMap, parsed, firstParsed, calls, scrapeVars, otherVars>>

\* One iteration of the second loop.
SecondPassStep ==
  /\ ppc = "second"
  /\ index <= Len(apiResponses)
  /\ LET acc == SecondPass([slots |-> slots, availableDatesSet |-> availableDatesSet],
                           Bodies[apiResponses[index]],
                           [doctorMap |-> doctorMap, tz |-> tz])
     IN /\ slots' = acc.slots
        /\ availableDatesSet' = acc.availableDatesSet
  /\ index' = index + 1
  /\ UNCHANGED <<apiResponses, tz, ppc, doctorMap, parsed, firstParsed, calls, scrapeVars, otherVars>>

\* Variant: the call empties the buffer it was given.
ParseReturnDrains ==
  /\ ppc = "second"
  /\ index > Len(apiResponses)
  /\ ppc' = "done"
  /\ parsed' = Normalise(slots, availableDatesSet)
  /\ firstParsed' = IF calls = 0 THEN parsed' ELSE firstParsed
  /\ calls' = calls + 1
  /\ apiResponses' = <<>>
  /\ index' = 1
  /\ UNCHANGED <<tz, doctorMap, slots, availableDatesSet, scrapeVars, otherVars>>

\* The second loop ends; dedup, sort, count and return.
ParseReturn ==
  /\ ppc = "second"
  /\ index > Len(apiResponses)
  /\ ppc' = "done"
  /\ parsed' = Normalise(slots, availableDatesSet)
  /\ firstParsed' = IF calls = 0 THEN parsed' ELSE firstParsed
  /\ calls' = calls + 1
  /\ UNCHANGED <<apiResponses, tz, index, doctorMap, slots, availableDatesSet, scrapeVars, otherVars>>

ParseNext == ParseStart \/ FirstPassStep \/ FirstPassEnd \/ SecondPassStep \/ ParseReturn

(***************************************************************************)
(* scrapeAspit(url, proxy, targetMonth).                                   *)
(***************************************************************************)
NoSession == [s \in {1, 2} |-> 0]

NoReturn == [clinic |-> "", availableDates |-> <<>>, slots |-> <<>>,
             rawData |-> "absent", error |-> JUndef]

NotExtracted == [ran |-> FALSE, buffer |-> <<>>]

\* No call of scrapeAspit is in progress.
ScrapeIdle ==
  /\ pc = "idle"
  /\ env = [VERCEL |-> FALSE, proxies |-> 0]
  /\ args = [proxy |-> FALSE, targetMonth |-> FALSE]
  /\ proxyIndex = 0
  /\ browser = 0
  /\ launched = {}
  /\ closes = NoSession
  /\ failure = "none"
  /\ result = NoReturn
  /\ outcome = "pending"
  /\ launches = 0
  /\ installs = 0
  /\ responses = <<>>
  /\ extractorInput = NotExtracted
  /\ attempted = {}

\* The literal returned when launch fails with VERCEL set.
DemoSlot(date, time, doctor) == Slot(JStr(date), JStr(time), JStr(doctor))
DemoResult ==
  [clinic |-> "Aspit Clinic (Demo Mode)",
   availableDates |-> << AvailableDate(JStr("2025-10-23"), 3),
                         AvailableDate(JStr("2025-10-24"), 2),
                         AvailableDate(JStr("2025-10-25"), 4) >>,
   slots |-> << DemoSlot("2025-10-23", "09:00", "Dr. Smith"),
                DemoSlot("2025-10-23", "10:30", "Dr. Johnson"),
                DemoSlot("2025-10-23", "14:00", "Dr. Smith"),
                DemoSlot("2025-10-24", "11:00", "Dr. Johnson"),
                DemoSlot("2025-10-24", "15:30", "Dr. Smith"),
                DemoSlot("2025-10-25", "09:30", "Dr. Johnson"),
                DemoSlot("2025-10-25", "13:00", "Dr. Smith"),
                DemoSlot("2025-10-25", "16:00", "Dr. Johnson"),
                DemoSlot("2025-10-25", "17:30", "Dr. Smith") >>,
   rawData |-> "demo note",
   error |-> JUndef]

\* The return of the outer catch: error instanceof Error ? error.message : 'Unknown error'
DegradedResult(isError, message) ==
  [clinic |-> "Aspit Clinic", availableDates |-> <<>>, slots |-> <<>>,
   rawData |-> "absent",
   error |-> JStr(IF isError THEN message ELSE "Unknown error")]

\* The return at the end of the try block; rawData is the buffer itself.
LiveResult(extracted) ==
  [clinic |-> "Aspit Clinic", availableDates |-> extracted.availableDates,
   slots |-> extracted.slots, rawData |-> "apiResponses", error |-> JUndef]

\* What no step of scrapeAspit writes.
fixedVars == <<tz, parseVars, env, args, otherVars>>

\* An exception raised at `site` inside the outer try: the catch block runs
\* and control reaches the finally block.
Caught(site, isError) ==
  /\ failure' = site
  /\ result' = DegradedResult(isError, site \o " failed")
  /\ pc' = "finally"

\* Variant: the rotation index advances on every call, with or without a
\* list.
GetNextProxyAlwaysAdvances(proxies, idx) ==
  IF proxies = 0
  THEN [proxy |-> 0, proxyIndex |-> idx + 1, read |-> FALSE]
  ELSE [proxy |-> (idx % proxies) + 1, proxyIndex |-> idx + 1, read |-> TRUE]

\* Variant: the rotation index is read and not advanced.
GetNextProxyNoAdvance(proxies, idx) ==
  IF proxies = 0
  THEN [proxy |-> 0, proxyIndex |-> idx, read |-> FALSE]
  ELSE [proxy |-> (idx % proxies) + 1, proxyIndex |-> idx, read |-> TRUE]

\* getNextProxy() on a list of `proxies` entries with the rotation index at
\* idx: the entry returned (0 is undefined), the index left behind, and
\* whether the index was read.
GetNextProxy(proxies, idx) ==
  IF proxies = 0
  THEN [proxy |-> 0, proxyIndex |-> idx, read |-> FALSE]
  ELSE [proxy |-> (idx % proxies) + 1, proxyIndex |-> idx + 1, read |-> TRUE]

\* proxy || getNextProxy(): an explicit proxy (0 - 1) short-circuits.
ProxyFor(given, proxies, idx) ==
  IF given
  THEN [proxy |-> 0 - 1, proxyIndex |-> idx, read |-> FALSE]
  ELSE GetNextProxy(proxies, idx)

\* proxy || getNextProxy(); getRandomUserAgent()
SelectProxy ==
  /\ pc = "start"
  /\ proxyIndex' = ProxyFor(args.proxy, env.proxies, proxyIndex).proxyIndex
  /\ pc' = "launch"
  /\ UNCHANGED <<fixedVars, apiResponses, browser, launched, closes, failure, result,
                 outcome, launches, installs, responses, extractorInput, attempted>>

\* chromium.launch returns a session.
LaunchOk ==
  /\ pc = "launch"
  /\ launches' = launches + 1
  /\ browser' = 1
  /\ launched' = launched \cup {1}
  /\ pc' = "context"
  /\ UNCHANGED <<fixedVars, apiResponses, proxyIndex, closes, failure, result, outcome,
                 installs, responses, extractorInput, attempted>>

\* Variant: the reinstall is tried whatever the environment.
LaunchFailsAlwaysReinstalls ==
  /\ pc = "launch"
  /\ launches' = launches + 1
  /\ pc' = "install"
  /\ UNCHANGED <<fixedVars, apiResponses, proxyIndex, browser, launched, closes, failure,
                 result, outcome, installs, responses, extractorInput, attempted>>

\* chromium.launch raises: the demo literal when VERCEL is set, otherwise on
\* to the reinstall.
LaunchFails ==
  /\ pc = "launch"
  /\ launches' = launches + 1
  /\ IF env.VERCEL
     THEN /\ result' = DemoResult
          /\ pc' = "finally"
     ELSE /\ pc' = "install"
          /\ UNCHANGED result
  /\ UNCHANGED <<fixedVars, apiResponses, proxyIndex, browser, launched, closes, failure,
                 outcome, installs, responses, extractorInput, attempted>>

\* execSync('npx playwright install chromium') returns.
InstallOk ==
  /\ pc = "install"
  /\ installs' = installs + 1
  /\ pc' = "relaunch"
  /\ UNCHANGED <<fixedVars, apiResponses, proxyIndex, browser, launched, closes, failure,
                 result, outcome, launches, responses, extractorInput, attempted>>

\* The install raises: a new Error is thrown to the outer catch.
InstallFails ==
  /\ pc = "install"
  /\ installs' = installs + 1
  /\ Caught("Browser launch", TRUE)
  /\ UNCHANGED <<fixedVars, apiResponses, proxyIndex, browser, launched, closes, outcome,
                 launches, responses, extractorInput, attempted>>

\* The second chromium.launch returns a session.
RelaunchOk ==
  /\ pc = "relaunch"
  /\ launches' = launches + 1
  /\ browser' = 2
  /\ launched' = launched \cup {2}
  /\ pc' = "context"
  /\ UNCHANGED <<fixedVars, apiResponses, proxyIndex, closes, failure, result, outcome,
                 installs, responses, extractorInput, attempted>>

\* Variant: a failed second launch goes back to the reinstall.
RelaunchFailsRetries ==
  /\ pc = "relaunch"
  /\ launches' = launches + 1
  /\ pc' = "install"
  /\ UNCHANGED <<fixedVars, apiResponses, proxyIndex, browser, launched, closes, failure,
                 result, outcome, installs, responses, extractorInput, attempted>>

\* The second launch raises: a new Error is thrown to the outer catch.
RelaunchFails ==
  /\ pc = "relaunch"
  /\ launches' = launches + 1
  /\ Caught("Browser launch", TRUE)
  /\ UNCHANGED <<fixedVars, apiResponses, proxyIndex, browser, launched, closes, outcome,
                 installs, responses, extractorInput, attempted>>

\* A step of the try block that awaits the browser: it completes and control
\* moves on, or it raises.
Step(from, to) ==
  /\ pc = from
  /\ pc' = to
  /\ UNCHANGED <<fixedVars, apiResponses, proxyIndex, browser, launched, closes, failure,
                 result, outcome, launches, installs, responses, extractorInput, attempted>>

StepFails(from) ==
  /\ pc = from
  /\ \E isError \in BOOLEAN : Caught(from, isError)
  /\ UNCHANGED <<fixedVars, apiResponses, proxyIndex, browser, launched, closes, outcome,
                 launches, installs, responses, extractorInput, attempted>>

\* browser.newContext, context.newPage, page.on('response', ...)
NewPage == Step("context", "goto")
NewPageFails == StepFails("context")

\* page.goto(url, { waitUntil: 'networkidle', timeout: 30000 })
Goto == Step("goto", "inspect")
GotoFails == StepFails("goto")

\* The wait, title, error elements and content checks; the page shows the
\* error marker or not.
Inspect == Step("inspect", "reload") \/ Step("inspect", "month")
InspectFails == StepFails("inspect")

\* page.reload and the wait after it
Reload == Step("reload", "month")
ReloadFails == StepFails("reload")

\* A step of the interaction sequence is entered and control moves on.
Attempt(from, to) ==
  /\ pc = from
  /\ pc' = to
  /\ attempted' = attempted \cup {from}
  /\ UNCHANGED <<fixedVars, apiResponses, proxyIndex, browser, launched, closes, failure,
                 result, outcome, launches, installs, responses, extractorInput>>

\* if (targetMonth) await navigateToMonth(page, targetMonth): it catches
\* whatever its clicks raise.
NavigateToMonth == args.targetMonth /\ Attempt("month", "interact")

\* No target month was given.
SkipMonth == ~args.targetMonth /\ Step("month", "interact")

\* The first wait of the interaction block; a raise goes to the catch that
\* ends the block.
InteractWait == Step("interact", "calendar")
InteractWaitFails == Step("interact", "settle")

\* The loop over calendarSelectors: locating and clicking are inside the
\* try of each selector.
ProbeCalendar == Attempt("calendar", "paging")

\* The forward controls are located; each one is clicked, and the backward
\* control after it, inside the try of that control.
PageForwardBack == Attempt("paging", "dates")

\* Locating the forward controls raises: no try but the block's encloses it.
PagingLocateFails == Attempt("paging", "settle")

\* The date elements are located; each click is inside its own try.
ClickDates == Attempt("dates", "clickables")

\* Locating the date elements raises.
DatesLocateFails == Attempt("dates", "settle")

\* The clickable elements are located and probed, each inside its own try;
\* a raise while locating them ends the block as its completion does.
ProbeClickables == Attempt("clickables", "settle")

\* The calendar interaction block.
Interact ==
  \/ InteractWait \/ InteractWaitFails \/ ProbeCalendar
  \/ PageForwardBack \/ PagingLocateFails
  \/ ClickDates \/ DatesLocateFails \/ ProbeClickables

\* page.waitForTimeout(5000); on completion the code runs on, without
\* awaiting, into the extraction.
Settle == Step("settle", "parse")
SettleFails == StepFails("settle")

\* Variant: an extraction that finds nothing is taken for a failure.
ParseFailsOnNothing ==
  /\ pc = "parse"
  /\ extractorInput' = [ran |-> TRUE, buffer |-> apiResponses]
  /\ LET extracted == ParseAvailabilityFromResponses(DataOf(apiResponses), tz)
     IN IF extracted.ok /\ (extracted.slots # <<>> \/ extracted.availableDates # <<>>)
        THEN /\ result' = LiveResult(extracted)
             /\ pc' = "finally"
             /\ UNCHANGED failure
        ELSE Caught("parse", TRUE)
  /\ UNCHANGED <<fixedVars, apiResponses, proxyIndex, browser, launched, closes, outcome,
                 launches, installs, responses, attempted>>

\* parseAvailabilityFromResponses(apiResponses) and the return statement.
Parse ==
  /\ pc = "parse"
  /\ extractorInput' = [ran |-> TRUE, buffer |-> apiResponses]
  /\ LET extracted == ParseAvailabilityFromResponses(DataOf(apiResponses), tz)
     IN IF extracted.ok
        THEN /\ result' = LiveResult(extracted)
             /\ pc' = "finally"
             /\ UNCHANGED failure
        ELSE Caught("parse", TRUE)
  /\ UNCHANGED <<fixedVars, apiResponses, proxyIndex, browser, launched, closes, outcome,
                 launches, installs, responses, attempted>>

\* Variant: the browser is closed at the end of the try block only.
FinallyOnlyAfterSuccess ==
  /\ pc = "finally"
  /\ closes' = IF browser # 0 /\ failure = "none"
               THEN [closes EXCEPT ![browser] = @ + 1] ELSE closes
  /\ outcome' = "returned"
  /\ pc' = "done"
  /\ UNCHANGED <<fixedVars, apiResponses, proxyIndex, browser, launched, failure, result,
                 launches, installs, responses, extractorInput, attempted>>

\* finally { if (browser) await browser.close() }: the result reaches the
\* caller once the close has completed.
Finally ==
  /\ pc = "finally"
  /\ closes' = IF browser # 0 THEN [closes EXCEPT ![browser] = @ + 1] ELSE closes
  /\ outcome' = "returned"
  /\ pc' = "done"
  /\ UNCHANGED <<fixedVars, apiResponses, proxyIndex, browser, launched, failure, result,
                 launches, installs, responses, extractorInput, attempted>>

\* browser.close() raises inside the finally block: the exception replaces
\* the pending return.
CloseFails ==
  /\ pc = "finally"
  /\ browser # 0
  /\ outcome' = "threw"
  /\ pc' = "done"
  /\ UNCHANGED <<fixedVars, apiResponses, proxyIndex, browser, launched, closes, failure,
                 result, launches, installs, responses, extractorInput, attempted>>

(***************************************************************************)
(* The handler of page.on('response'), one step per await.                 *)
(***************************************************************************)
\* Bodies a response of the page carries in Spec; 0 is the empty body and
\* 0 - 1 a non-empty body that is not JSON.
PageBodies == {1, 7, 13}
EmptyBody == 0
MalformedBody == 0 - 1
Contents == PageBodies \cup {EmptyBody, MalformedBody}

\* The words of the URL filter that let a response through on their own.
Keywords ==
  {"api", "calendar", "appointment", "availability", "booking", "time", "slot", "service",
   "clinic", "doctor", "schedule", "date", "month", "week"}

\* The URLs of the model, each as the set of the filter's words it contains:
\*   1  https://cdn.example.net/fonts/a.woff2
\*   2  https://www.aspit.no/styles/main.css
\*   3  https://www.aspit.no/bundle/data
\*   4  https://svc.example.net/api/availability
Urls == << {}, {"aspit.no"}, {"aspit.no", "data"}, {"api", "availability"} >>

\* responseUrl.includes(word)
Includes(url, word) == word \in Urls[url]

\* The condition of the handler's outer if.
RelevantUrl(url) ==
  \/ \E word \in Keywords : Includes(url, word)
  \/ Includes(url, "aspit.no") /\ (Includes(url, "json") \/ Includes(url, "data"))
  \/ Includes(url, "timebestilling") /\ (Includes(url, "json") \/ Includes(url, "data"))

\* The responses a page sends: the URL and whether it passes the filter,
\* whether the content type is a JSON one, and the body.
Arrival(url, jsonType, content) ==
  [url |-> url, relevant |-> RelevantUrl(url), jsonType |-> jsonType, content |-> content]
Arrivals ==
  {Arrival(1, TRUE, 1), Arrival(2, FALSE, MalformedBody)}
    \cup {Arrival(3, FALSE, content) : content \in {EmptyBody, MalformedBody}}
    \cup {Arrival(4, TRUE, content) : content \in Contents}

\* The record pushed with isText: true; its data is a string.
TextBody == 12

\* The positions at which scrapeAspit is suspended in an await on the page.
AwaitsPage == {"goto", "inspect", "reload", "month", "interact", "calendar", "paging",
               "dates", "clickables", "settle", "finally"}

\* The session is open and the call is not inside synchronous code.
HandlerRuns == browser # 0 /\ closes[browser] = 0 /\ pc # "parse"

\* The only writes of the handler.
Handled(i, stage, buffer) ==
  /\ responses' = [responses EXCEPT ![i].stage = stage]
  /\ apiResponses' = buffer
  /\ UNCHANGED <<fixedVars, pc, proxyIndex, browser, launched, closes, failure, result,
                 outcome, launches, installs, extractorInput, attempted>>

\* Variant: a response that is not declared as JSON is read as text.
OnResponseTextForOtherTypes ==
  /\ pc \in AwaitsPage
  /\ browser # 0
  /\ Len(responses) < MaxCaptured
  /\ \E arrival \in Arrivals :
       responses' = Append(responses,
                           [url |-> arrival.url, relevant |-> arrival.relevant,
                            jsonType |-> arrival.jsonType,
                            content |-> arrival.content,
                            stage |-> IF ~arrival.relevant THEN "ignored"
                                      ELSE IF ~arrival.jsonType THEN "text" ELSE "json"])
  /\ UNCHANGED <<fixedVars, apiResponses, pc, proxyIndex, browser, launched, closes, failure,
                 result, outcome, launches, installs, extractorInput, attempted>>

\* Variant: no URL filter.
OnResponseUnfiltered ==
  /\ pc \in AwaitsPage
  /\ browser # 0
  /\ Len(responses) < MaxCaptured
  /\ \E arrival \in Arrivals :
       responses' = Append(responses,
                           [url |-> arrival.url, relevant |-> arrival.relevant,
                            jsonType |-> arrival.jsonType,
                            content |-> arrival.content,
                            stage |-> IF ~arrival.jsonType THEN "skipped" ELSE "json"])
  /\ UNCHANGED <<fixedVars, apiResponses, pc, proxyIndex, browser, launched, closes, failure,
                 result, outcome, launches, installs, extractorInput, attempted>>

\* A response arrives: the URL filter, then the content-type test; only a
\* response declared as JSON goes on to await response.json().
OnResponse ==
  /\ pc \in AwaitsPage
  /\ browser # 0
  /\ Len(responses) < MaxCaptured
  /\ \E arrival \in Arrivals :
       responses' = Append(responses,
                           [url |-> arrival.url, relevant |-> arrival.relevant,
                            jsonType |-> arrival.jsonType,
                            content |-> arrival.content,
                            stage |-> IF ~arrival.relevant THEN "ignored"
                                      ELSE IF ~arrival.jsonType THEN "skipped" ELSE "json"])
  /\ UNCHANGED <<fixedVars, apiResponses, pc, proxyIndex, browser, launched, closes, failure,
                 result, outcome, launches, installs, extractorInput, attempted>>

\* response.json() resolves and the record is pushed.
JsonResolves ==
  \E i \in 1..Len(responses) :
    /\ responses[i].stage = "json"
    /\ responses[i].content \in PageBodies
    /\ HandlerRuns
    /\ Handled(i, "pushed", Append(apiResponses, responses[i].content))

\* response.json() rejects: the body is not JSON, or it could not be read.
JsonRejects ==
  \E i \in 1..Len(responses) :
    /\ responses[i].stage = "json"
    /\ pc # "parse"
    /\ Handled(i, "text", apiResponses)

\* response.text() resolves: a non-empty text is pushed with isText.
TextResolves ==
  \E i \in 1..Len(responses) :
    /\ responses[i].stage = "text"
    /\ HandlerRuns
    /\ IF responses[i].content = EmptyBody
       THEN Handled(i, "empty", apiResponses)
       ELSE Handled(i, "pushedText", Append(apiResponses, TextBody))

\* response.text() rejects: the response is dropped.
TextRejects ==
  \E i \in 1..Len(responses) :
    /\ responses[i].stage = "text"
    /\ pc # "parse"
    /\ Handled(i, "unread", apiResponses)

ScrapeNext ==
  \/ SelectProxy \/ LaunchOk \/ LaunchFails \/ InstallOk \/ InstallFails
  \/ RelaunchOk \/ RelaunchFails
  \/ NewPage \/ NewPageFails \/ Goto \/ GotoFails \/ Inspect \/ InspectFails
  \/ Reload \/ ReloadFails \/ NavigateToMonth \/ SkipMonth \/ Interact \/ Settle \/ SettleFails
  \/ Parse \/ Finally \/ CloseFails
  \/ OnResponse \/ JsonResolves \/ JsonRejects \/ TextResolves \/ TextRejects

(***************************************************************************)
(* GET of app/api/scrape/route.ts and its cache. The clock counts          *)
(* milliseconds and advances by minutes.                                   *)
(***************************************************************************)
CACHE_DURATION == 5 * 60 * 1000
Minute == 60 * 1000

\* The proxy parameter ("" is absent or empty) and the
\* getFullYear()-getMonth() of the month parameter ("" is absent or invalid).
Proxies == {"", "p", "p-2025-10"}
Months == {"", "2025-10"}

\* `${targetUrl}-${proxy || 'no-proxy'}${monthKey}`
CacheKey(proxy, month) ==
  "u" \o "-" \o (IF proxy = "" THEN "no-proxy" ELSE proxy)
      \o (IF month = "" THEN "" ELSE "-" \o month)

CacheKeys == {CacheKey(proxy, month) : proxy \in Proxies, month \in Months}

\* What scrapeAspit can return.
ResultKinds == {"live", "degraded", "demo"}

NoEntry == [present |-> FALSE, timestamp |-> 0, proxy |-> "", month |-> "", kind |-> ""]
Entry(timestamp, proxy, month, kind) ==
  [present |-> TRUE, timestamp |-> timestamp, proxy |-> proxy, month |-> month, kind |-> kind]

Unused == [stage |-> "unused", proxy |-> "", month |-> ""]
Closed == [stage |-> "closed", proxy |-> "", month |-> ""]
NoAnswer == [status |-> 0, cached |-> FALSE, proxy |-> "", month |-> "", data |-> NoEntry,
             cacheAge |-> 0, scraped |-> FALSE]

\* No request has reached the endpoint.
RouteIdle ==
  /\ cache = [key \in CacheKeys |-> NoEntry]
  /\ now = 0
  /\ inflight = [r \in 1..MaxRequests |-> Unused]
  /\ answer = NoAnswer

\* cleanupCache()
CleanupCache(entries, time) ==
  [key \in CacheKeys |->
     IF entries[key].present /\ time - entries[key].timestamp > CACHE_DURATION
     THEN NoEntry ELSE entries[key]]

\* A request arrives and TARGET_CLINIC_URL is not set.
GetUnconfigured(r) ==
  /\ inflight[r].stage = "unused"
  /\ \E proxy \in Proxies, month \in Months :
       answer' = [NoAnswer EXCEPT !.status = 500, !.proxy = proxy, !.month = month]
  /\ inflight' = [inflight EXCEPT ![r] = Closed]
  /\ UNCHANGED <<apiResponses, tz, parseVars, scrapeVars, sessions, clickVars, cache, now>>

\* A request arrives: the entry under its key is served when it is fresh;
\* otherwise scrapeAspit is called, which selects its proxy before the
\* handler is suspended.
GET(r) ==
  /\ inflight[r].stage = "unused"
  /\ \E proxy \in Proxies, month \in Months :
       LET cached == cache[CacheKey(proxy, month)]
       IN IF cached.present /\ now - cached.timestamp < CACHE_DURATION
          THEN /\ answer' = [status |-> 200, cached |-> TRUE, proxy |-> proxy,
                             month |-> month, data |-> cached,
                             cacheAge |-> now - cached.timestamp, scraped |-> FALSE]
               /\ inflight' = [inflight EXCEPT ![r] = Closed]
               /\ UNCHANGED proxyIndex
          ELSE /\ inflight' = [inflight EXCEPT ![r] =
                                 [stage |-> "scraping", proxy |-> proxy, month |-> month]]
               /\ proxyIndex' = ProxyFor(proxy # "", env.proxies, proxyIndex).proxyIndex
               /\ UNCHANGED answer
  /\ UNCHANGED <<apiResponses, tz, parseVars, pc, env, args, browser, launched, closes,
                 failure, result, outcome, launches, installs, responses, extractorInput,
                 attempted, sessions, clickVars, cache, now>>

\* Variant: a result carrying an error is sent and not stored.
ScrapeReturnsStoresSuccess(r) ==
  /\ inflight[r].stage = "scraping"
  /\ \E kind \in ResultKinds :
       LET stored == Entry(now, inflight[r].proxy, inflight[r].month, kind)
       IN /\ cache' = CleanupCache(
                        IF kind = "degraded" THEN cache
                        ELSE [cache EXCEPT ![CacheKey(inflight[r].proxy, inflight[r].month)] = stored],
                        now)
          /\ answer' = [status |-> 200, cached |-> FALSE, proxy |-> inflight[r].proxy,
                        month |-> inflight[r].month, data |-> stored, cacheAge |-> 0,
                        scraped |-> TRUE]
  /\ inflight' = [inflight EXCEPT ![r] = Closed]
  /\ UNCHANGED <<apiResponses, tz, parseVars, scrapeVars, sessions, clickVars, now>>

\* scrapeAspit returns: the result is stored under the key with the current
\* time, old entries are removed, and the result is sent.
ScrapeReturns(r) ==
  /\ inflight[r].stage = "scraping"
  /\ \E kind \in ResultKinds :
       LET stored == Entry(now, inflight[r].proxy, inflight[r].month, kind)
       IN /\ cache' = CleanupCache(
                        [cache EXCEPT ![CacheKey(inflight[r].proxy, inflight[r].month)] = stored],
                        now)
          /\ answer' = [status |-> 200, cached |-> FALSE, proxy |-> inflight[r].proxy,
                        month |-> inflight[r].month, data |-> stored, cacheAge |-> 0,
                        scraped |-> TRUE]
  /\ inflight' = [inflight EXCEPT ![r] = Closed]
  /\ UNCHANGED <<apiResponses, tz, parseVars, scrapeVars, sessions, clickVars, now>>

\* scrapeAspit rejects: the catch of GET answers 500 and nothing is stored.
ScrapeThrows(r) ==
  /\ inflight[r].stage = "scraping"
  /\ answer' = [NoAnswer EXCEPT !.status = 500, !.proxy = inflight[r].proxy,
                                !.month = inflight[r].month, !.scraped = TRUE]
  /\ inflight' = [inflight EXCEPT ![r] = Closed]
  /\ UNCHANGED <<apiResponses, tz, parseVars, scrapeVars, sessions, clickVars, cache, now>>

\* A minute passes.
Tick ==
  /\ now < MaxMinutes * Minute
  /\ now' = now + Minute
  /\ UNCHANGED <<apiResponses, tz, parseVars, scrapeVars, sessions, clickVars, cache, inflight, answer>>

RouteNext ==
  \/ \E r \in 1..MaxRequests :
       GetUnconfigured(r) \/ GET(r) \/ ScrapeReturns(r) \/ ScrapeThrows(r)
  \/ Tick

(***************************************************************************)
(* The interaction block of scrapeAspit (lines 207-301) and                *)
(* navigateToMonth (lines 480-540), one loop iteration per step. The page  *)
(* is the environment: what a locator finds, whether an element is         *)
(* visible and whether a call on it raises are chosen at each call.        *)
(***************************************************************************)

\* Bound: the most elements one locator call returns.
MaxElements == 11

\* Bound: the largest distance in months between today and the target.
MaxMonths == 3

\* The entries of calendarSelectors.
NumSelectors == 9

\* click() calls made by step (calendar: on the elements of the selector at
\* hand), and the months the page was moved by the clicks that resolved.
NoClicks == [calendar |-> 0, forward |-> 0, backward |-> 0, dates |-> 0, clickables |-> 0,
             moved |-> 0]

\* Neither navigateToMonth nor the interaction block is running.
InteractIdle ==
  /\ ipc = "idle"
  /\ monthsDiff = 0
  /\ monthLog = <<>>
  /\ selector = 1
  /\ located = 0
  /\ iter = 0
  /\ clicks = NoClicks

Abs(n) == IF n < 0 THEN 0 - n ELSE n

\* Variant: the whole list is walked.
Unsliced(n, cap) == n

\* Length of list.slice(0, cap) for a list of n elements.
Sliced(n, cap) == IF n < cap THEN n ELSE cap

\* What one guarded click comes to: isVisible() answers false ("hidden") or
\* raises ("unseen"); click() is called and resolves ("clicked") or raises
\* ("failed"); the click resolves and a later await of the same try block
\* raises ("interrupted").
Outcomes == {"hidden", "unseen", "clicked", "failed", "interrupted"}

\* click() was called.
Issued(o) == o \in {"clicked", "failed", "interrupted"}

\* The exception leaves the enclosing try block.
Raises(o) == o \in {"unseen", "failed", "interrupted"}

\* ---- navigateToMonth ----

\* What isVisible() comes to, and what click() and the waits come to.
Visible == {"yes", "no", "raises"}
Ends == {"resolves", "raises"}

\* The controls one iteration called click() on: the first-choice control of
\* the direction if visible, else the alternative if that one is visible.
ClickedControls(isNext, first, alt) ==
  IF first = "yes" THEN {IF isNext THEN "next" ELSE "prev"}
  ELSE IF first = "no" /\ alt = "yes" THEN {IF isNext THEN "altNext" ELSE "altPrev"}
  ELSE {}

\* The iteration ended in its catch: an isVisible() that ran raised, or the
\* click or one of the waits after it did.
IterationCaught(first, alt, click, waits) ==
  \/ first = "raises"
  \/ first = "no" /\ alt = "raises"
  \/ (first = "yes" \/ (first = "no" /\ alt = "yes")) /\ click = "raises"
  \/ first # "raises" /\ (first = "no" => alt # "raises") /\ waits = "raises"

\* Lines 482-489: monthsDiff is 0 and the function returns.
MonthsDiffZero ==
  /\ ipc = "month"
  /\ monthsDiff = 0
  /\ ipc' = "returned"
  /\ UNCHANGED <<outsideVars, monthsDiff, monthLog, selector, located, iter, clicks>>

\* Lines 491-496: the locators are built and the loop is entered.
MonthLoopStart ==
  /\ ipc = "month"
  /\ monthsDiff # 0
  /\ ipc' = "monthLoop"
  /\ iter' = 0
  /\ UNCHANGED <<outsideVars, monthsDiff, monthLog, selector, located, clicks>>

\* Variant: the catch of an iteration leaves the loop.
MonthIterationStopsOnFailure ==
  /\ ipc = "monthLoop"
  /\ iter < Abs(monthsDiff)
  /\ \E first \in Visible, alt \in Visible, click \in Ends, waits \in Ends :
       /\ monthLog' = Append(monthLog,
                              [clicked |-> ClickedControls(monthsDiff > 0, first, alt),
                               caught |-> IterationCaught(first, alt, click, waits)])
       /\ iter' = IF IterationCaught(first, alt, click, waits)
                    THEN Abs(monthsDiff) ELSE iter + 1
  /\ UNCHANGED <<outsideVars, ipc, monthsDiff, selector, located, clicks>>

\* Lines 498-531, one iteration: isNext picks the pair of controls; the
\* first-choice control is clicked if visible, else the alternative if
\* visible; the waits follow; whatever raises is caught at line 527 and the
\* loop goes on.
MonthIteration ==
  /\ ipc = "monthLoop"
  /\ iter < Abs(monthsDiff)
  /\ \E first \in Visible, alt \in Visible, click \in Ends, waits \in Ends :
       monthLog' = Append(monthLog,
                          [clicked |-> ClickedControls(monthsDiff > 0, first, alt),
                           caught |-> IterationCaught(first, alt, click, waits)])
  /\ iter' = iter + 1
  /\ UNCHANGED <<outsideVars, ipc, monthsDiff, selector, located, clicks>>

\* Lines 498, 533-534: the loop is over and the function returns.
MonthLoopEnd ==
  /\ ipc = "monthLoop"
  /\ iter >= Abs(monthsDiff)
  /\ ipc' = "returned"
  /\ UNCHANGED <<outsideVars, monthsDiff, monthLog, selector, located, iter, clicks>>

NavigateNext == MonthsDiffZero \/ MonthLoopStart \/ MonthIteration \/ MonthLoopEnd

\* ---- the interaction block ----

\* Line 209 resolves.
BlockWait ==
  /\ ipc = "wait"
  /\ ipc' = "calendar"
  /\ selector' = 1
  /\ UNCHANGED <<outsideVars, monthsDiff, monthLog, located, iter, clicks>>

\* Line 209 raises: the catch of line 299.
BlockWaitFails ==
  /\ ipc = "wait"
  /\ ipc' = "settle"
  /\ UNCHANGED <<outsideVars, monthsDiff, monthLog, selector, located, iter, clicks>>

\* The selector loop moves on: to the next selector, or to line 239.
AfterSelector ==
  /\ ipc' = IF selector = NumSelectors THEN "paging" ELSE "calendar"
  /\ selector' = IF selector = NumSelectors THEN selector ELSE selector + 1

\* Line 226: the elements of the selector are located.
LocateCalendar ==
  /\ ipc = "calendar"
  /\ \E n \in 0..MaxElements : located' = n
  /\ iter' = 0
  /\ clicks' = [clicks EXCEPT !.calendar = 0]
  /\ ipc' = "calendarEach"
  /\ UNCHANGED <<outsideVars, monthsDiff, monthLog, selector>>

\* Line 226 raises: the catch of line 233, then the next selector.
LocateCalendarFails ==
  /\ ipc = "calendar"
  /\ AfterSelector
  /\ clicks' = [clicks EXCEPT !.calendar = 0]
  /\ UNCHANGED <<outsideVars, monthsDiff, monthLog, located, iter>>

\* Lines 227-232, one element: clicked if visible; an exception ends the
\* selector's try block.
CalendarElement ==
  /\ ipc = "calendarEach"
  /\ iter < Sliced(located, 2)
  /\ \E o \in Outcomes :
       /\ clicks' = [clicks EXCEPT !.calendar = IF Issued(o) THEN @ + 1 ELSE @]
       /\ IF Raises(o)
            THEN AfterSelector /\ UNCHANGED iter
            ELSE iter' = iter + 1 /\ UNCHANGED <<ipc, selector>>
  /\ UNCHANGED <<outsideVars, monthsDiff, monthLog, located>>

\* Line 227: the selector's elements are exhausted.
CalendarEnd ==
  /\ ipc = "calendarEach"
  /\ iter >= Sliced(located, 2)
  /\ AfterSelector
  /\ UNCHANGED <<outsideVars, monthsDiff, monthLog, located, iter, clicks>>

\* Line 239: the forward controls are located.
LocateNextButtons ==
  /\ ipc = "paging"
  /\ \E n \in 0..MaxElements : located' = n
  /\ iter' = 0
  /\ ipc' = "pagingEach"
  /\ UNCHANGED <<outsideVars, monthsDiff, monthLog, selector, clicks>>

\* Line 239 raises, outside every inner try: the catch of line 299.
LocateNextButtonsFails ==
  /\ ipc = "paging"
  /\ ipc' = "settle"
  /\ UNCHANGED <<outsideVars, monthsDiff, monthLog, selector, located, iter, clicks>>

\* What becomes of the way back after a forward click that resolved: the
\* wait of line 244 or the locator of line 246 raises ("unlocated"), the
\* locator finds nothing ("missing"), or the first backward control is
\* handled as any guarded click.
BackOutcomes == {"unlocated", "missing"} \cup Outcomes

\* Lines 240-257, one forward control: if visible it is clicked, and after
\* the wait the first backward control, if there is one and it is visible,
\* is clicked. Every exception is caught at line 255.
PagingButton ==
  /\ ipc = "pagingEach"
  /\ iter < Sliced(located, 2)
  /\ \E o \in Outcomes \ {"interrupted"}, back \in BackOutcomes :
       /\ (o # "clicked") => back = "missing"
       /\ clicks' = [clicks EXCEPT !.forward = IF Issued(o) THEN @ + 1 ELSE @,
                                   !.backward = IF o = "clicked" /\ Issued(back)
                                                  THEN @ + 1 ELSE @,
                                   !.moved = IF o # "clicked" THEN @
                                             ELSE IF back \in {"clicked", "interrupted"}
                                                    THEN @ ELSE @ + 1]
  /\ iter' = iter + 1
  /\ UNCHANGED <<outsideVars, ipc, monthsDiff, monthLog, selector, located>>

\* Line 240: the forward controls are exhausted.
PagingEnd ==
  /\ ipc = "pagingEach"
  /\ iter >= Sliced(located, 2)
  /\ ipc' = "dates"
  /\ UNCHANGED <<outsideVars, monthsDiff, monthLog, selector, located, iter, clicks>>

\* Line 261: the date elements are located.
LocateDates ==
  /\ ipc = "dates"
  /\ \E n \in 0..MaxElements : located' = n
  /\ iter' = 0
  /\ ipc' = "datesEach"
  /\ UNCHANGED <<outsideVars, monthsDiff, monthLog, selector, clicks>>

\* Line 261 raises, outside every inner try: the catch of line 299.
LocateDatesFails ==
  /\ ipc = "dates"
  /\ ipc' = "settle"
  /\ UNCHANGED <<outsideVars, monthsDiff, monthLog, selector, located, iter, clicks>>

\* Lines 264-278, one date element: clicked if visible, then scrolled into
\* view; every exception is caught at line 276.
DateElement ==
  /\ ipc = "datesEach"
  /\ iter < Sliced(located, 10)
  /\ \E o \in Outcomes :
       clicks' = [clicks EXCEPT !.dates = IF Issued(o) THEN @ + 1 ELSE @]
  /\ iter' = iter + 1
  /\ UNCHANGED <<outsideVars, ipc, monthsDiff, monthLog, selector, located>>

\* Line 264: the date elements are exhausted.
DatesEnd ==
  /\ ipc = "datesEach"
  /\ iter >= Sliced(located, 10)
  /\ ipc' = "clickables"
  /\ UNCHANGED <<outsideVars, monthsDiff, monthLog, selector, located, iter, clicks>>

\* Line 281: the clickable elements are located.
LocateClickables ==
  /\ ipc = "clickables"
  /\ \E n \in 0..MaxElements : located' = n
  /\ iter' = 0
  /\ ipc' = "clickablesEach"
  /\ UNCHANGED <<outsideVars, monthsDiff, monthLog, selector, clicks>>

\* Line 281 raises, outside every inner try: the catch of line 299.
LocateClickablesFails ==
  /\ ipc = "clickables"
  /\ ipc' = "settle"
  /\ UNCHANGED <<outsideVars, monthsDiff, monthLog, selector, located, iter, clicks>>

\* Lines 284-297, one element: clicked if visible and its text holds one of
\* the four words (an element without them counts as "hidden" here); every
\* exception is caught at line 295.
ClickableElement ==
  /\ ipc = "clickablesEach"
  /\ iter < Sliced(located, 5)
  /\ \E o \in Outcomes :
       clicks' = [clicks EXCEPT !.clickables = IF Issued(o) THEN @ + 1 ELSE @]
  /\ iter' = iter + 1
  /\ UNCHANGED <<outsideVars, ipc, monthsDiff, monthLog, selector, located>>

\* Line 284: the clickable elements are exhausted; the block is left.
ClickablesEnd ==
  /\ ipc = "clickablesEach"
  /\ iter >= Sliced(located, 5)
  /\ ipc' = "settle"
  /\ UNCHANGED <<outsideVars, monthsDiff, monthLog, selector, located, iter, clicks>>

InteractNext ==
  \/ BlockWait \/ BlockWaitFails
  \/ LocateCalendar \/ LocateCalendarFails \/ CalendarElement \/ CalendarEnd
  \/ LocateNextButtons \/ LocateNextButtonsFails \/ PagingButton \/ PagingEnd
  \/ LocateDates \/ LocateDatesFails \/ DateElement \/ DatesEnd
  \/ LocateClickables \/ LocateClickablesFails \/ ClickableElement \/ ClickablesEnd

\* No invocation of SpecConcurrent has begun.
NoSessions ==
  sessions = [i \in 1..MaxInvocations |-> [pc |-> "idle", proxyArg |-> FALSE,
                                           proxy |-> 0, read |-> 0 - 1]]

\* One call of scrapeAspit in a fresh process running on UTC; SpecExtract
\* runs the extraction under every offset.
Init ==
  /\ apiResponses = <<>>
  /\ tz = 0
  /\ ppc = "idle"
  /\ index = 1
  /\ doctorMap = EmptyMap
  /\ slots = <<>>
  /\ availableDatesSet = <<>>
  /\ parsed = NoResult
  /\ firstParsed = NoResult
  /\ calls = 0
  /\ pc = "start"
  /\ env \in [VERCEL : BOOLEAN, proxies : {0, 2}]
  /\ args \in [proxy : BOOLEAN, targetMonth : BOOLEAN]
  /\ proxyIndex = 0
  /\ browser = 0
  /\ launched = {}
  /\ closes = NoSession
  /\ failure = "none"
  /\ result = NoReturn
  /\ outcome = "pending"
  /\ launches = 0
  /\ installs = 0
  /\ responses = <<>>
  /\ extractorInput = NotExtracted
  /\ attempted = {}
  /\ NoSessions
  /\ RouteIdle
  /\ InteractIdle

Next == ScrapeNext

Spec == Init /\ [][Next]_vars

\* The steps whose wait ends by itself: timers, and browser calls that carry
\* a timeout of their own (launch, goto, reload, click) or are answered by
\* the session at once. execSync is given no timeout.
Timed ==
  \/ SelectProxy \/ LaunchOk \/ LaunchFails \/ RelaunchOk \/ RelaunchFails
  \/ NewPage \/ NewPageFails \/ Goto \/ GotoFails \/ Inspect \/ InspectFails
  \/ Reload \/ ReloadFails \/ NavigateToMonth \/ SkipMonth \/ Interact \/ Settle \/ SettleFails
  \/ Finally \/ CloseFails

\* One call of scrapeAspit whose timed waits all end and whose extraction,
\* which is synchronous code over a finite buffer, runs to its end.
FairSpec == Init /\ [][Next]_vars /\ WF_vars(Timed) /\ []<>(pc # "parse")

(***************************************************************************)
(* Invocations of scrapeAspit running in one process: what each one does   *)
(* before its first await, and its return.                                 *)
(***************************************************************************)
Invocations == 1..MaxInvocations

Started(i) == sessions[i].pc # "idle"

\* scrapeAspit is called: lines 25-56 run without suspension up to the
\* await of chromium.launch, the proxy selection among them.
Invoke(i) ==
  /\ sessions[i].pc = "idle"
  /\ \E given \in BOOLEAN :
       LET selected == ProxyFor(given, env.proxies, proxyIndex)
       IN /\ sessions' = [sessions EXCEPT ![i] =
                            [pc |-> "running", proxyArg |-> given,
                             proxy |-> selected.proxy,
                             read |-> IF selected.read THEN proxyIndex ELSE 0 - 1]]
          /\ proxyIndex' = selected.proxyIndex
  /\ UNCHANGED <<apiResponses, tz, parseVars, pc, env, args, browser, launched, closes,
                 failure, result, outcome, launches, installs, responses, extractorInput,
                 attempted, routeVars, clickVars>>

\* The invocation returns to its caller.
Return(i) ==
  /\ sessions[i].pc = "running"
  /\ sessions' = [sessions EXCEPT ![i].pc = "done"]
  /\ UNCHANGED <<apiResponses, tz, parseVars, scrapeVars, routeVars, clickVars>>

ConcurrentNext == \E i \in Invocations : Invoke(i) \/ Return(i)

\* A fresh process with PROXY_LIST unset or holding 2 or 3 entries.
ConcurrentInit ==
  /\ apiResponses = <<>>
  /\ tz = 0
  /\ ppc = "idle"
  /\ index = 1
  /\ doctorMap = EmptyMap
  /\ slots = <<>>
  /\ availableDatesSet = <<>>
  /\ parsed = NoResult
  /\ firstParsed = NoResult
  /\ calls = 0
  /\ pc = "idle"
  /\ env \in [VERCEL : {FALSE}, proxies : {0, 2, 3}]
  /\ args = [proxy |-> FALSE, targetMonth |-> FALSE]
  /\ proxyIndex = 0
  /\ browser = 0
  /\ launched = {}
  /\ closes = NoSession
  /\ failure = "none"
  /\ result = NoReturn
  /\ outcome = "pending"
  /\ launches = 0
  /\ installs = 0
  /\ responses = <<>>
  /\ extractorInput = NotExtracted
  /\ attempted = {}
  /\ NoSessions
  /\ RouteIdle
  /\ InteractIdle

SpecConcurrent == ConcurrentInit /\ [][ConcurrentNext]_vars

\* A fresh server process with a list of 2 proxies.
RouteInit ==
  /\ apiResponses = <<>>
  /\ tz = 0
  /\ ppc = "idle"
  /\ index = 1
  /\ doctorMap = EmptyMap
  /\ slots = <<>>
  /\ availableDatesSet = <<>>
  /\ parsed = NoResult
  /\ firstParsed = NoResult
  /\ calls = 0
  /\ pc = "idle"
  /\ env = [VERCEL |-> FALSE, proxies |-> 2]
  /\ args = [proxy |-> FALSE, targetMonth |-> FALSE]
  /\ proxyIndex = 0
  /\ browser = 0
  /\ launched = {}
  /\ closes = NoSession
  /\ failure = "none"
  /\ result = NoReturn
  /\ outcome = "pending"
  /\ launches = 0
  /\ installs = 0
  /\ responses = <<>>
  /\ extractorInput = NotExtracted
  /\ attempted = {}
  /\ NoSessions
  /\ RouteIdle
  /\ InteractIdle

SpecRoute == RouteInit /\ [][RouteNext]_vars

\* The extractor on every buffer of at most MaxResponses records.
ExtractInit ==
  /\ apiResponses \in Buffers(MaxResponses)
  /\ tz \in TzOffsets
  /\ ppc = "idle"
  /\ index = 1
  /\ doctorMap = EmptyMap
  /\ slots = <<>>
  /\ availableDatesSet = <<>>
  /\ parsed = NoResult
  /\ firstParsed = NoResult
  /\ calls = 0
  /\ ScrapeIdle
  /\ NoSessions
  /\ RouteIdle
  /\ InteractIdle

SpecExtract == ExtractInit /\ [][ParseNext]_vars

\* navigateToMonth is called with a target at most MaxMonths months away.
NavigateInit ==
  /\ apiResponses = <<>>
  /\ tz = 0
  /\ ppc = "idle"
  /\ index = 1
  /\ doctorMap = EmptyMap
  /\ slots = <<>>
  /\ availableDatesSet = <<>>
  /\ parsed = NoResult
  /\ firstParsed = NoResult
  /\ calls = 0
  /\ ScrapeIdle
  /\ NoSessions
  /\ RouteIdle
  /\ ipc = "month"
  /\ monthsDiff \in (0 - MaxMonths)..MaxMonths
  /\ monthLog = <<>>
  /\ selector = 1
  /\ located = 0
  /\ iter = 0
  /\ clicks = NoClicks

SpecNavigate == NavigateInit /\ [][NavigateNext]_vars

\* The interaction block is entered at line 207.
InteractInit ==
  /\ apiResponses = <<>>
  /\ tz = 0
  /\ ppc = "idle"
  /\ index = 1
  /\ doctorMap = EmptyMap
  /\ slots = <<>>
  /\ availableDatesSet = <<>>
  /\ parsed = NoResult
  /\ firstParsed = NoResult
  /\ calls = 0
  /\ ScrapeIdle
  /\ NoSessions
  /\ RouteIdle
  /\ ipc = "wait"
  /\ monthsDiff = 0
  /\ monthLog = <<>>
  /\ selector = 1
  /\ located = 0
  /\ iter = 0
  /\ clicks = NoClicks

SpecInteract == InteractInit /\ [][InteractNext]_vars

(***************************************************************************)
(* Properties of the extractor.                                            *)
(***************************************************************************)
Returned == ppc = "done" /\ parsed.ok

SameKey(a, b) == StrictEq(a.date, b.date) /\ StrictEq(a.time, b.time)

\* The first slot, in extraction order, with the (date, time) of `slot`.
FirstExtracted(slot) ==
  CHOOSE i \in 1..Len(slots) :
    SameKey(slots[i], slot) /\ \A j \in 1..(i - 1) : ~SameKey(slots[j], slot)

\* C4: the returned slot list has no two entries with equal (date, time),
\* and each entry carries the doctor of the first extracted slot with its
\* (date, time).
C4_Dedup ==
  Returned =>
    /\ \A i, j \in 1..Len(parsed.slots) :
         i # j => ~SameKey(parsed.slots[i], parsed.slots[j])
    /\ \A i \in 1..Len(parsed.slots) :
         /\ \E j \in 1..Len(slots) : SameKey(slots[j], parsed.slots[i])
         /\ parsed.slots[i].doctor = slots[FirstExtracted(parsed.slots[i])].doctor

\* Two extracted slots share (date, time) and differ in doctor.
C4_Witness ==
  /\ Returned
  /\ \E i, j \in 1..Len(slots) :
       i < j /\ SameKey(slots[i], slots[j]) /\ slots[i].doctor # slots[j].doctor

Precedes(a, b) == Rank(a) < Rank(b)

\* C5: the returned slots ascend by date and, on equal dates, by time; the
\* returned availableDates ascend by date.
C5_Sorted ==
  Returned =>
    /\ \A i, j \in 1..Len(parsed.slots) :
         i < j =>
           \/ Precedes(parsed.slots[i].date.s, parsed.slots[j].date.s)
           \/ /\ parsed.slots[i].date.s = parsed.slots[j].date.s
              /\ ~Precedes(parsed.slots[j].time.s, parsed.slots[i].time.s)
    /\ \A i, j \in 1..Len(parsed.availableDates) :
         i < j => ~Precedes(parsed.availableDates[j].date.s, parsed.availableDates[i].date.s)

\* Slots were extracted with a later date first and, on one date, with a
\* later time first; dates were declared out of order.
C5_Witness ==
  /\ Returned
  /\ \E i, j \in 1..Len(slots) : i < j /\ Precedes(slots[j].date.s, slots[i].date.s)
  /\ \E i, j \in 1..Len(slots) :
       i < j /\ slots[j].date.s = slots[i].date.s /\ Precedes(slots[j].time.s, slots[i].time.s)
  /\ \E i, j \in 1..Len(availableDatesSet) :
       i < j /\ Precedes(availableDatesSet[j].s, availableDatesSet[i].s)

SlotsOn(date) == {i \in 1..Len(parsed.slots) : StrictEq(parsed.slots[i].date, date)}
EntriesFor(date) ==
  {i \in 1..Len(parsed.availableDates) : StrictEq(parsed.availableDates[i].date, date)}

\* C6: every date of a returned slot has exactly one availableDates entry,
\* whose count is the number of returned slots on that date.
C6_CountConsistent ==
  Returned =>
    \A i \in 1..Len(parsed.slots) :
      /\ Cardinality(EntriesFor(parsed.slots[i].date)) = 1
      /\ \A e \in EntriesFor(parsed.slots[i].date) :
           parsed.availableDates[e].count = Cardinality(SlotsOn(parsed.slots[i].date))

\* A date with two returned slots that was also declared available, and a
\* date with a slot that was not declared.
C6_Witness ==
  /\ Returned
  /\ \E i \in 1..Len(parsed.slots) :
       /\ Cardinality(SlotsOn(parsed.slots[i].date)) >= 2
       /\ SetHas(availableDatesSet, parsed.slots[i].date)
  /\ \E i \in 1..Len(parsed.slots) : ~SetHas(availableDatesSet, parsed.slots[i].date)

\* The dates a body declares in its available-dates fields, with the item
\* that declares each.
DeclaredItems(data) ==
  IF data.k # "obj" THEN {}
  ELSE UNION { IF IsArray(Get(data, dateFields[f]))
               THEN {<<f, i>> : i \in 1..Len(Get(data, dateFields[f]).e)}
               ELSE {} : f \in 1..Len(dateFields) }

ItemOf(data, fi) == Get(data, dateFields[fi[1]]).e[fi[2]]

DeclaresDate(item) == item.k = "str" \/ (item.k = "obj" /\ Truthy(Get(item, "date")))

DateOfItem(item) == IF item.k = "str" THEN item ELSE Get(item, "date")

\* C7: a date declared available by a response, with no slot extracted for
\* it, appears in the returned availableDates with count 0.
C7_DeclaredDateReported ==
  Returned =>
    \A r \in 1..Len(apiResponses) :
      \A fi \in DeclaredItems(Bodies[apiResponses[r]]) :
        LET item == ItemOf(Bodies[apiResponses[r]], fi)
        IN (DeclaresDate(item) /\ SlotsOn(DateOfItem(item)) = {}) =>
             \E e \in EntriesFor(DateOfItem(item)) : parsed.availableDates[e].count = 0

HasOwnCount(item) == item.k = "obj" /\ Truthy(Get(item, "date")) /\ Get(item, "count").k = "num"

\* C8 as amended: the entry of a date declared with a count of its own and
\* without captured slots carries 0, the number of captured slots.
C8_CountIsCaptured ==
  Returned =>
    \A r \in 1..Len(apiResponses) :
      \A fi \in DeclaredItems(Bodies[apiResponses[r]]) :
        LET item == ItemOf(Bodies[apiResponses[r]], fi)
        IN (HasOwnCount(item) /\ SlotsOn(DateOfItem(item)) = {}) =>
             \A e \in EntriesFor(DateOfItem(item)) : parsed.availableDates[e].count = 0

\* A returned entry for a date that its source declared with a count.
C8_Witness ==
  /\ Returned
  /\ \E r \in 1..Len(apiResponses) :
       \E fi \in DeclaredItems(Bodies[apiResponses[r]]) :
         LET item == ItemOf(Bodies[apiResponses[r]], fi)
         IN /\ HasOwnCount(item) /\ Get(item, "count").n > 0
            /\ SlotsOn(DateOfItem(item)) = {}
            /\ EntriesFor(DateOfItem(item)) # {}

\* C8 as stated: that entry carries the count the source declared.
C8_SourceCount ==
  Returned =>
    \A r \in 1..Len(apiResponses) :
      \A fi \in DeclaredItems(Bodies[apiResponses[r]]) :
        LET item == ItemOf(Bodies[apiResponses[r]], fi)
        IN (HasOwnCount(item) /\ SlotsOn(DateOfItem(item)) = {}) =>
             \A e \in EntriesFor(DateOfItem(item)) :
               parsed.availableDates[e].count = Get(item, "count").n

\* The time entries of the duration-slot entries of a body, each with the
\* entry that owns it.
DurationEntries(data) ==
  IF data.k = "obj" /\ IsArray(Get(data, "DurationTimeSlots"))
  THEN {d \in 1..Len(Get(data, "DurationTimeSlots").e) :
          IsArray(Get(Get(data, "DurationTimeSlots").e[d], "TimeSlots"))}
  ELSE {}

\* C9: a slot emitted from a duration-slot entry is attributed to the User
\* of that entry: the directory name when listed, "User <id>" otherwise.
C9_OwnerOfDurationEntry ==
  Returned =>
    \A r \in 1..Len(apiResponses) :
      \A d \in DurationEntries(Bodies[apiResponses[r]]) :
        LET entry == Get(Bodies[apiResponses[r]], "DurationTimeSlots").e[d]
            times == Get(entry, "TimeSlots").e
        IN \A t \in 1..Len(times) :
             NewDate(Get(times[t], "Start")).valid =>
               \E i \in 1..Len(slots) :
                 /\ slots[i].date = JStr(ISODate(NewDate(Get(times[t], "Start")), tz))
                 /\ slots[i].time = Get(times[t], "TimeSlot")
                 /\ slots[i].doctor = DoctorFor(doctorMap, Get(entry, "User"))

\* C10: a second call on the same buffer returns what the first returned,
\* and no step of a call changes the buffer.
C10_Idempotent ==
  /\ []((ppc = "done" /\ calls = 2) => parsed = firstParsed)
  /\ [][apiResponses' = apiResponses]_vars

\* Two calls completed on a buffer that yields slots and dates.
C10_Witness ==
  /\ ppc = "done" /\ calls = 2 /\ parsed.ok
  /\ Len(parsed.slots) >= 2 /\ Len(parsed.availableDates) >= 2
  /\ DOMAIN doctorMap # {}

(***************************************************************************)
(* Properties of scrapeAspit.                                              *)
(***************************************************************************)
\* C1: no exception escapes scrapeAspit; every call ends by returning a
\* result.
C1_NeverEscapes == outcome # "threw"

\* C2: when a result reaches the caller, every session that was launched
\* has been closed exactly once, and nothing was closed if none was launched.
C2_ClosedOnce ==
  /\ \A s \in {1, 2} : closes[s] <= 1 /\ (closes[s] = 1 => s \in launched)
  /\ outcome = "returned" => \A s \in launched : closes[s] = 1

\* A degraded result returned after the session of the retry was launched.
C2_Witness ==
  /\ outcome = "returned" /\ failure # "none"
  /\ launched = {2} /\ closes[2] = 1

\* C3: after a failure that reached the outer catch the call returns a
\* result with no slots, no available dates and an error message.
C3_FailureDegrades ==
  (pc = "done" /\ failure # "none") =>
    /\ outcome = "returned"
    /\ result.slots = <<>> /\ result.availableDates = <<>>
    /\ result.error.k = "str" /\ result.error.s # ""

\* C11: the second-pass iteration of a response whose body is an empty
\* object, a primitive or unrelated nested JSON pushes no slot, and the
\* extraction of that body does not raise.
C11_IgnoredBodies ==
  [][(ppc = "second" /\ index <= Len(apiResponses) /\ apiResponses[index] \in IgnoredIds) =>
       /\ slots' = slots
       /\ ExtractSlotsFromObject(Bodies[apiResponses[index]],
                                 [doctorMap |-> doctorMap, tz |-> tz]).ok]_vars

\* A call returned slots from a buffer that also holds nested unrelated JSON.
C11_Witness ==
  /\ Returned /\ Len(parsed.slots) > 0
  /\ \E i \in 1..Len(apiResponses) : apiResponses[i] = 21

(***************************************************************************)
(* Properties of one call of scrapeAspit.                                  *)
(***************************************************************************)
NoDuplicates(list) ==
  \A i, j \in 1..Len(list) : i # j => ~SameKey(list[i], list[j])

Ascending(list) ==
  \A i, j \in 1..Len(list) :
    i < j =>
      \/ Precedes(list[i].date.s, list[j].date.s)
      \/ /\ list[i].date.s = list[j].date.s
         /\ ~Precedes(list[j].time.s, list[i].time.s)

DatesAscending(list) ==
  \A i, j \in 1..Len(list) : i < j => ~Precedes(list[j].date.s, list[i].date.s)

CountsMatch(r) ==
  /\ \A i \in 1..Len(r.availableDates) :
       r.availableDates[i].count =
         Cardinality({j \in 1..Len(r.slots) : StrictEq(r.slots[j].date, r.availableDates[i].date)})
  /\ \A j \in 1..Len(r.slots) :
       Cardinality({i \in 1..Len(r.availableDates) :
                      StrictEq(r.availableDates[i].date, r.slots[j].date)}) = 1

\* The first chromium.launch raised.
FirstLaunchFailed == launches >= 1 /\ 1 \notin launched

\* C12: when the first launch fails with VERCEL set, no install and no
\* second launch is made, and the call returns the demonstration result:
\* slots present, a clinic label other than the live one, the demo note as
\* rawData, no error; its slots are free of duplicates and sorted, and its
\* counts match its slots.
C12_DemoFallback ==
  (env.VERCEL /\ FirstLaunchFailed) =>
    /\ installs = 0 /\ launches = 1
    /\ pc \in {"finally", "done"}
    /\ pc = "done" => outcome = "returned"
    /\ result.slots # <<>>
    /\ result.clinic # LiveResult(NoResult).clinic
    /\ result.rawData = "demo note"
    /\ result.error = JUndef
    /\ NoDuplicates(result.slots)
    /\ Ascending(result.slots) /\ DatesAscending(result.availableDates)
    /\ CountsMatch(result)

\* The call returned after a failed launch with VERCEL set.
C12_Witness ==
  env.VERCEL /\ FirstLaunchFailed /\ pc = "done" /\ outcome = "returned"

\* C13: without VERCEL a failed first launch is followed by one install and
\* at most one more launch; a second launch that succeeds puts the call
\* where a first launch does, and a failed install or second launch ends
\* the call with the degraded result carrying the error.
C13_RecoveryOnce ==
  /\ installs <= 1 /\ launches <= 2
  /\ installs = 1 => (~env.VERCEL /\ FirstLaunchFailed)
  /\ (~env.VERCEL /\ FirstLaunchFailed /\ pc # "install") => installs = 1
  /\ 2 \in launched =>
       /\ browser = 2 /\ launches = 2
       /\ (pc = "done" /\ failure = "none") => result.rawData = "apiResponses"
  /\ (installs = 1 /\ launched = {} /\ pc # "relaunch") =>
       /\ pc \in {"finally", "done"}
       /\ failure = "Browser launch"
       /\ result = DegradedResult(TRUE, "Browser launch failed")
       /\ pc = "done" => outcome = "returned"

\* The second launch succeeded and the call returned a live result.
C13_Witness ==
  /\ 2 \in launched /\ pc = "done" /\ outcome = "returned"
  /\ result.rawData = "apiResponses"

NothingToExtract ==
  \A i \in 1..Len(extractorInput.buffer) : extractorInput.buffer[i] \in IgnoredIds

C15_BufferFrozen ==
  (outcome = "returned" /\ result.rawData = "apiResponses") =>
    apiResponses = extractorInput.buffer

\* The handler of response i has finished.
Settled(i) == responses[i].stage \notin {"json", "text"}

\* C19 as stated: a relevant response that is not declared as JSON, or whose
\* body does not parse, ends as a text-flagged record unless its text could
\* not be read or is empty.
C19_TextFallback ==
  \A i \in 1..Len(responses) :
    (responses[i].relevant /\ Settled(i) /\ responses[i].stage # "pushed") =>
      \/ responses[i].stage = "pushedText"
      \/ responses[i].stage = "unread"
      \/ responses[i].content = EmptyBody

\* The records of the buffer that carry isText.
TextRecords == {k \in 1..Len(apiResponses) : apiResponses[k] = TextBody}

\* C19 amended: the text of a response is read only after response.json()
\* raised on a relevant response declared as JSON, and a text-flagged record
\* is pushed exactly for such a response whose text was read and is not
\* empty; a relevant response not declared as JSON is skipped unread.
C19_FallbackOnJsonFailure ==
  /\ \A i \in 1..Len(responses) :
       /\ responses[i].stage \in {"text", "pushedText", "empty", "unread"} =>
            (responses[i].relevant /\ responses[i].jsonType)
       /\ (responses[i].relevant /\ ~responses[i].jsonType) => responses[i].stage = "skipped"
       /\ responses[i].stage = "pushedText" => responses[i].content # EmptyBody
       /\ responses[i].stage = "empty" => responses[i].content = EmptyBody
  /\ Cardinality(TextRecords) =
       Cardinality({i \in 1..Len(responses) : responses[i].stage = "pushedText"})

\* A body that is not JSON was pushed as text after response.json() raised.
C19_Witness ==
  \E i \in 1..Len(responses) :
    /\ responses[i].stage = "pushedText"
    /\ responses[i].content = MalformedBody
    /\ TextRecords # {}

\* The steps of the interaction block, in program order.
InteractionSteps == <<"calendar", "paging", "dates", "clickables">>

\* C20: once the interaction block is over, every step that follows an
\* attempted step was attempted too.
C20_StepsIndependent ==
  pc \in {"settle", "parse"} =>
    \A i, j \in 1..Len(InteractionSteps) :
      (i < j /\ InteractionSteps[i] \in attempted) => InteractionSteps[j] \in attempted

\* C17: every call of scrapeAspit ends.
C17_EventuallyReturns == <>(pc = "done")

(***************************************************************************)
(* Properties of concurrent invocations.                                   *)
(***************************************************************************)
\* C16 as stated: the proxy an invocation uses depends on its own inputs
\* only, so two invocations called alike use the same proxy.
C16_NoSharedState ==
  \A i, j \in Invocations :
    (Started(i) /\ Started(j) /\ sessions[i].proxyArg = sessions[j].proxyArg) =>
      sessions[i].proxy = sessions[j].proxy

\* The invocations that took their proxy from the rotation.
Rotating == {i \in Invocations : Started(i) /\ sessions[i].read >= 0}

\* C16 amended: an invocation given a proxy, or run with no proxy list,
\* does not touch proxyIndex and uses what its inputs say; an invocation that
\* rotates reads an index value no other invocation read, uses the list
\* entry at that index, and proxyIndex counts the rotating invocations.
C16_OnlyRotationShared ==
  /\ proxyIndex = Cardinality(Rotating)
  /\ \A i \in Invocations :
       Started(i) =>
         /\ sessions[i].proxyArg => (sessions[i].proxy = 0 - 1 /\ i \notin Rotating)
         /\ (~sessions[i].proxyArg /\ env.proxies = 0) =>
              (sessions[i].proxy = 0 /\ i \notin Rotating)
         /\ (~sessions[i].proxyArg /\ env.proxies > 0) =>
              /\ i \in Rotating
              /\ sessions[i].proxy = (sessions[i].read % env.proxies) + 1
  /\ \A i, j \in Rotating : i # j => sessions[i].read # sessions[j].read

\* Two invocations called without a proxy run at once on different proxies.
C16_Witness ==
  \E i, j \in Invocations :
    /\ sessions[i].pc = "running" /\ sessions[j].pc = "running"
    /\ ~sessions[i].proxyArg /\ ~sessions[j].proxyArg
    /\ sessions[i].proxy # sessions[j].proxy

\* The invocations whose call of getNextProxy was the one numbered k,
\* counting the calls that returned a proxy from 0.
CallNumbered(k) == {i \in Rotating : sessions[i].read = k}

\* C30: with n entries configured, the calls of getNextProxy that returned a
\* proxy are numbered 0, 1, 2, ... by the index they read, call k returned
\* entry k mod n, and any n calls in a row returned every entry; proxyIndex
\* counts those calls and no other, so an invocation given a proxy or run
\* with no list left it alone.
C30_Rotation ==
  /\ proxyIndex = Cardinality(Rotating)
  /\ \A k \in 0..(proxyIndex - 1) :
       /\ Cardinality(CallNumbered(k)) = 1
       /\ \A i \in CallNumbered(k) : sessions[i].proxy = (k % env.proxies) + 1
  /\ \A i \in Rotating : sessions[i].read < proxyIndex
  /\ \A first \in 0..(proxyIndex - env.proxies) :
       env.proxies > 0 =>
         {sessions[i].proxy : i \in {j \in Rotating :
                                       sessions[j].read \in first..(first + env.proxies - 1)}}
           = 1..env.proxies
  /\ \A i \in Invocations :
       (Started(i) /\ (sessions[i].proxyArg \/ env.proxies = 0)) => i \notin Rotating

\* With 2 entries configured, three calls returned a proxy and the third
\* came back to the entry of the first.
C30_Witness ==
  /\ env.proxies = 2
  /\ proxyIndex = 3
  /\ \E i, j \in Rotating :
       /\ sessions[i].read = 0 /\ sessions[j].read = 2
       /\ sessions[i].proxy = sessions[j].proxy

(***************************************************************************)
(* Properties of the endpoint.                                             *)
(***************************************************************************)
\* C18: an answer from the cache comes from an entry stored for the same
\* URL, proxy and month and less than 5 minutes old; any other answer to a
\* configured request follows a scrape whose result is in the cache under
\* the request's key with the current time.
C18_CacheFreshness ==
  /\ answer.cached =>
       /\ answer.data.present
       /\ answer.data.proxy = answer.proxy /\ answer.data.month = answer.month
       /\ answer.cacheAge < CACHE_DURATION
  /\ (answer.status # 0 /\ ~answer.cached /\ (answer.status = 200 \/ answer.scraped)) =>
       /\ answer.scraped
       /\ cache[CacheKey(answer.proxy, answer.month)].present
       /\ cache[CacheKey(answer.proxy, answer.month)] = answer.data

\* The entry under the key is less than 5 minutes old.
Fresh(key) == cache[key].present /\ now - cache[key].timestamp < CACHE_DURATION

PagingOver == ipc \in {"dates", "datesEach", "clickables", "clickablesEach"}

\* C21: once the paging step is over, as many clicks were made on forward
\* controls as on backward controls, and the clicks that resolved moved the
\* page by no month.
C21_PagingReturns ==
  PagingOver => clicks.forward = clicks.backward /\ clicks.moved = 0

ForwardControls == {"next", "altNext"}
BackwardControls == {"prev", "altPrev"}

\* C22: navigateToMonth returns after exactly |monthsDiff| iterations (none,
\* and no click, when monthsDiff is 0); each iteration clicks at most one
\* control, a forward one when monthsDiff > 0 and a backward one when
\* monthsDiff < 0; an iteration that found no control or ended in its catch
\* is followed by the remaining ones.
C22_MonthNavigator ==
  /\ ipc = "returned" => Len(monthLog) = Abs(monthsDiff)
  /\ Len(monthLog) <= Abs(monthsDiff)
  /\ \A i \in 1..Len(monthLog) :
       /\ Cardinality(monthLog[i].clicked) <= 1
       /\ monthsDiff > 0 => monthLog[i].clicked \subseteq ForwardControls
       /\ monthsDiff < 0 => monthLog[i].clicked \subseteq BackwardControls

\* A call three months ahead returned: its first iteration ended in the
\* catch, its second found no visible control, its third clicked.
C22_Witness ==
  /\ ipc = "returned"
  /\ monthsDiff >= 3
  /\ monthLog[1].caught
  /\ monthLog[2].clicked = {} /\ ~monthLog[2].caught
  /\ monthLog[3].clicked = {"altNext"}

\* C27: the click() calls of one pass through the block stay within the
\* caps: 2 per calendar selector, 2 on forward controls, 10 on date elements
\* and 5 on generic clickable elements.
C27_ClickCaps ==
  /\ clicks.calendar <= 2
  /\ clicks.forward <= 2
  /\ clicks.dates <= 10
  /\ clicks.clickables <= 5

\* More than 10 date elements were located and 10 of them clicked, after 2
\* clicks on the last calendar selector and 2 on forward controls.
C27_Witness ==
  /\ ipc = "datesEach"
  /\ located > 10
  /\ iter = 10
  /\ clicks.dates = 10
  /\ clicks.forward = 2
  /\ clicks.calendar = 2

(***************************************************************************)
(* Further properties of the extractor.                                    *)
(***************************************************************************)

\* The strings of the model that are calendar dates (YYYY-MM-DD).
CalendarDates ==
  {"1970-01-01", "2025-10-23", "2025-10-24", "2025-10-25",
   "2025-11-01", "2025-11-02", "2025-11-03", "2025-11-04", "2025-11-05"}

\* C23: every returned slot has a calendar date string as its date and a
\* non-empty time.
C23_SlotsWellFormed ==
  Returned =>
    \A i \in 1..Len(parsed.slots) :
      /\ parsed.slots[i].date.k = "str"
      /\ parsed.slots[i].date.s \in CalendarDates
      /\ Truthy(parsed.slots[i].time)

\* The objects of a body that carry a Start timestamp and a slot label: the
\* time entries of its duration-slot entries, and the body itself.
StartEntries(data) ==
  {Get(Get(data, "DurationTimeSlots").e[d], "TimeSlots").e[t] :
     <<d, t>> \in {p \in DurationEntries(data) \X (1..2) :
                     p[2] <= Len(Get(Get(data, "DurationTimeSlots").e[p[1]], "TimeSlots").e)}}
  \cup (IF data.k = "obj" THEN {data} ELSE {})

\* The YYYY-MM-DD part of a timestamp as the source wrote it.
WrittenDate(start) == DayNames[ParseTimestamp(start.s).day]

\* C24: a slot emitted from a Start timestamp and a slot label carries the
\* date written in the timestamp, whatever its time of day and UTC offset.
C24_DateAsWritten ==
  Returned =>
    \A r \in 1..Len(apiResponses) :
      \A entry \in StartEntries(Bodies[apiResponses[r]]) :
        (/\ Truthy(Get(entry, "Start")) /\ Truthy(Get(entry, "TimeSlot"))
         /\ NewDate(Get(entry, "Start")).valid) =>
          /\ ISODate(NewDate(Get(entry, "Start")), tz) = WrittenDate(Get(entry, "Start"))
          /\ \E i \in 1..Len(slots) :
               /\ slots[i].date = JStr(WrittenDate(Get(entry, "Start")))
               /\ slots[i].time = Get(entry, "TimeSlot")

\* The buffer with the records at positions k and k + 1 exchanged.
Swapped(buffer, k) ==
  [i \in 1..Len(buffer) |->
     IF i = k THEN buffer[k + 1] ELSE IF i = k + 1 THEN buffer[k] ELSE buffer[i]]

KeyPairs(list) == {<<list[i].date, list[i].time>> : i \in 1..Len(list)}

\* The bodies that are a practitioner listing and nothing else.
ListingOnly == {3, 4}

\* C25: the directory is that of the whole buffer when the second loop
\* begins and no step of the second loop writes it; exchanging two
\* neighbouring responses leaves the (date, time) pairs and availableDates
\* as they are, and the whole slot list, doctors included, when one of the
\* two is a practitioner listing (compared on the first call; C10 covers
\* the calls after it).
C25_OrderIndependent ==
  /\ [](ppc = "second" => doctorMap = FirstLoop(EmptyMap, DataOf(apiResponses), 1))
  /\ [][ppc = "second" => doctorMap' = doctorMap]_vars
  /\ []((ppc = "done" /\ calls = 1) =>
         \A k \in 1..(Len(apiResponses) - 1) :
           LET other == ParseAvailabilityFromResponses(DataOf(Swapped(apiResponses, k)), tz)
           IN /\ other.ok = parsed.ok
              /\ KeyPairs(other.slots) = KeyPairs(parsed.slots)
              /\ other.availableDates = parsed.availableDates
              /\ (apiResponses[k] \in ListingOnly \/ apiResponses[k + 1] \in ListingOnly) =>
                   other.slots = parsed.slots)

\* The listing that names user 7 was captured after the response whose
\* slots belong to user 7, and the slots carry the listed name.
C25_Witness ==
  /\ Returned
  /\ apiResponses = <<2, 3>>
  /\ Len(parsed.slots) = 2
  /\ \A i \in 1..Len(parsed.slots) : parsed.slots[i].doctor = JStr("Dr. Lin")

\* What the extraction of the response at position r returns or raises,
\* with the directory of the running call.
ExtractedAt(r) ==
  ExtractSlotsFromObject(Bodies[apiResponses[r]], [doctorMap |-> doctorMap, tz |-> tz])

\* The slots of the first n responses, those whose extraction raises left out.
RECURSIVE Collected(_)
Collected(n) ==
  IF n = 0 THEN <<>>
  ELSE LET extracted == ExtractedAt(n)
       IN Collected(n - 1) \o (IF extracted.ok THEN extracted.slots ELSE <<>>)

\* The buffer without the responses whose extraction raises.
RECURSIVE Kept(_)
Kept(n) ==
  IF n = 0 THEN <<>>
  ELSE IF ExtractedAt(n).ok THEN Append(Kept(n - 1), apiResponses[n]) ELSE Kept(n - 1)

\* C28: the slot list of the running call holds what the responses handled
\* so far yield, nothing for a response whose extraction raises; the call
\* returns normally, and with the (date, time) pairs and availableDates it
\* returns for the buffer without the raising responses (compared on the
\* first call; C10 covers the calls after it).
C28_FailuresIsolated ==
  /\ (ppc = "second" /\ calls = 0) => slots = Collected(index - 1)
  /\ (ppc = "done") => parsed.ok
  /\ (ppc = "done" /\ calls = 1) =>
       LET kept == Kept(Len(apiResponses))
       IN /\ slots = Collected(Len(apiResponses))
          /\ (Len(kept) < Len(apiResponses)) =>
               LET other == ParseAvailabilityFromResponses(DataOf(kept), tz)
               IN /\ KeyPairs(parsed.slots) = KeyPairs(other.slots)
                  /\ parsed.availableDates = other.availableDates

\* A call returned slots and dates from a buffer whose first response raised
\* in extraction.
C28_Witness ==
  /\ Returned
  /\ Len(apiResponses) = 2
  /\ ~ExtractedAt(1).ok
  /\ ExtractedAt(2).ok /\ ExtractedAt(2).slots # <<>>
  /\ Len(parsed.slots) > 0 /\ Len(parsed.availableDates) > 0

(***************************************************************************)
(* Further properties of one call of scrapeAspit.                          *)
(***************************************************************************)

\* The responses whose handler pushed a record.
Pushed == {i \in 1..Len(responses) : responses[i].stage \in {"pushed", "pushedText"}}

\* C26: the handler of a response whose URL contains none of the filter's
\* words ends without a push, whatever its content type and body, and the
\* buffer holds one record per response that passed the filter and was
\* pushed, and no other.
C26_RelevanceFilter ==
  /\ \A i \in 1..Len(responses) :
       ~RelevantUrl(responses[i].url) => responses[i].stage = "ignored"
  /\ \A i \in Pushed : RelevantUrl(responses[i].url)
  /\ Len(apiResponses) = Cardinality(Pushed)

\* A call returned after a response declared as JSON with a parseable body
\* was dropped for its URL.
C26_Witness ==
  /\ outcome = "returned"
  /\ \E i \in 1..Len(responses) :
       /\ ~RelevantUrl(responses[i].url)
       /\ responses[i].jsonType
       /\ responses[i].content \in PageBodies
  /\ result.rawData = "apiResponses"

====
